---- MODULE Spec2Model ----
(***************************************************************************)
(* The block-production scheduler ("worker") of internal/miner/worker.go:   *)
(* the trigger loop (workLoop), the build dispatch (runLoop, commitWork,    *)
(* fillTransactions, commit), the sealing dispatch (taskLoop) and the       *)
(* result handling (resultLoop), with the channels and the locked tables    *)
(* that couple them.                                                        *)
(*                                                                          *)
(* Gas is counted in units of 10500 gas (params.TxGas = 21000 is 2 units),  *)
(* durations in milliseconds.                                               *)
(***************************************************************************)
EXTENDS Integers, Sequences, FiniteSets, TLC

\* ------------------------------------------------------------------ bounds
MaxTxs == 3            \* longest candidate list the pool supplies
MaxGasLimit == 5       \* largest header gas limit
MaxHead == 9           \* highest chain head number
MaxTime == 0           \* time.Now().Unix() runs 0..MaxTime
MaxBlocks == 2         \* sealed blocks the engine gets into the chain
MaxCalls == 2          \* calls of start, stop and setCoinbase
MaxReceipts == 2        \* receipts of a task, and logs of a receipt
MaxDeliveries == 3     \* sealed blocks the engine delivers to the result handler
MaxEnvOps == 3          \* changes made to an environment and its copy
MaxSignal == 30        \* signal values run -MaxSignal..MaxSignal, and the ends of int32
MaxTopicOps == 5       \* calls of addTopic and removeTopic
MaxOpens == 2          \* calls of Open, OpenReader or OpenWriter by one caller

\* ------------------------------------------------------- program constants
commitInterruptNone == 0
commitInterruptNewHead == 1
commitInterruptResubmit == 2
commitInterruptTimeout == 3

staleThreshold == 7
resubmitAdjustChanSize == 10
minPeriodInterval == 1000
maxRecommitInterval == 12000
intervalAdjustBias == 200
TxGas == 2

ZeroAddress == 0
Addresses == {0, 1}

\* --------------------------------------------------------------- variables
VARIABLES
    \* the worker's shared fields
    running,        \* w.running (atomic)
    coinbase,       \* w.coinbase
    pendingTasks,   \* w.pendingTasks: the set of registered tasks, keyed by SealHash
    startCh,        \* number of tokens buffered in w.startCh (capacity 1)
    newWorkCh,      \* the request workLoop.commit is blocked sending
    adjustCh,       \* w.resubmitAdjustCh: buffered intervalAdjust messages
    newBlockCh,     \* the latest undelivered ChainHighestBlock event (its head number)
    flags,          \* the interruption flags (atomic.Int32) issued and still referred to
    \* collaborators
    head,           \* w.chain.CurrentBlock().Number64()
    txsPool,        \* what w.txsPool.GetTransaction() returns
    chainGasLimit,  \* CalcGasLimit(parent.GasLimit, GasCeil)
    \* workLoop
    wpc, interrupt, recommit, minRecommit, timestamp, timerArmed,
    \* runLoop / commitWork / fillTransactions / commit
    rpc, req, env, ibs, fillTxs, fillIdx, fillErr, attempted, task,
    \* taskLoop and the engine's sealing attempts
    tpc, prev, sealTask, sealing,
    stopCh,         \* taskLoop's stopCh and the cancellation channels it made
    sealErr,        \* what the last call of engine.Seal returned
    \* resultLoop and the chain store
    chainBlocks, lastResult, writes,
    \* the caller of start(), and the number of calls made so far
    spc, calls,
    \* the pending snapshot, its lock, updateSnapshot and the snapshot readers
    snapshotBlock, snapshotReceipts, snapshotMu, upc, uenv, rdr,
    \* w.ctx cancelled, and the position of resultLoop
    ctxDone, xpc,
    \* api.AddrLocker: l.mu, l.locks, the mutexes made so far, the callers
    almu, locks, mutexes, acl,
    \* a call of signalToErr: its argument and what it returned
    sigArg, sigRet,
    \* resultLoop step by step: its locals, the receipts and logs in memory,
    \* the receipts handed to the chain store, the store writes and events in
    \* the order they were made, the number of deliveries so far
    hl, rheap, lheap, store, effects, deliveries,
    \* w.mu, the two words of w.coinbase in memory, and the accesses to the
    \* guarded fields: setCoinbase, commitWork, resultLoop's lookup, taskLoop's
    \* registration
    wmu, cbWords, sc, cw, lk, rg,
    \* environment.copy(): the objects in memory, the environment and its copy,
    \* the number of changes made to them
    mem, envs, ops,
    \* sync.subTopicHandler: subTopics (its keys), digestMap, the number of
    \* addTopic and removeTopic calls made
    subTopics, digestMap, topicOps,
    \* lmdb.Lmdb: m.mu, m.mDBI, the DBI handles newDBI made, the callers of
    \* Open, OpenReader and OpenWriter
    dbmu, mDBI, dbis, ocl

sharedVars == <<running, coinbase, pendingTasks, startCh>>
chainVars == <<head, txsPool, chainGasLimit>>
workVars == <<wpc, interrupt, recommit, minRecommit, timestamp, timerArmed>>
buildVars == <<rpc, req, env, ibs, fillTxs, fillIdx, fillErr, attempted, task>>
sealVars == <<tpc, prev, sealTask, sealing, stopCh, sealErr>>
resultVars == <<chainBlocks, lastResult, writes>>
callerVars == <<spc, calls>>
snapVars == <<snapshotBlock, snapshotReceipts, snapshotMu, upc, uenv, rdr>>
ctxVars == <<ctxDone, xpc>>
addrVars == <<almu, locks, mutexes, acl>>
sigVars == <<sigArg, sigRet>>
handlerVars == <<hl, rheap, lheap, store, effects, deliveries>>
guardVars == <<wmu, cbWords, sc, cw, lk, rg>>
copyVars == <<mem, envs, ops>>
topicVars == <<subTopics, digestMap, topicOps>>
dbiVars == <<dbmu, mDBI, dbis, ocl>>
libVars == <<addrVars, sigVars, handlerVars, guardVars, copyVars, topicVars, dbiVars>>
workerVars == <<ctxVars, sharedVars, newWorkCh, adjustCh, newBlockCh, flags, chainVars, workVars,
                buildVars, sealVars, resultVars, callerVars>>
vars == <<sharedVars, newWorkCh, adjustCh, newBlockCh, flags, chainVars, workVars,
          buildVars, sealVars, resultVars, callerVars, snapVars, ctxVars, libVars>>

\* The callers of LockAddr and UnlockAddr and the addresses they lock.
Callers == {1, 2}
IdleCaller == [pc |-> "idle", op |-> "none", addr |-> ZeroAddress, m |-> 0, held |-> FALSE]

\* A zero AddrLocker: l.locks is nil, no mutex exists.
InitAddrLocker ==
    /\ almu = 0
    /\ locks = [a \in Addresses |-> 0]
    /\ mutexes = <<>>
    /\ acl = [c \in Callers |-> IdleCaller]

\* w.mu free, w.coinbase the zero address, nobody at a guarded field.
Words(a) == <<a, a>>
InitGuards ==
    /\ wmu = [writer |-> "none", readers |-> {}]
    /\ cbWords = Words(ZeroAddress)
    /\ sc = [pc |-> "idle", addr |-> ZeroAddress]
    /\ cw = [pc |-> "idle", got |-> Words(ZeroAddress)]
    /\ lk = "idle"
    /\ rg = "idle"

\* newSubTopicHandler(): both maps empty.
InitTopics ==
    /\ subTopics = {}
    /\ digestMap = <<>>
    /\ topicOps = 0

\* The callers of Open, OpenReader and OpenWriter.
Openers == {1, 2}
IdleOpener == [pc |-> "idle", name |-> "none", got |-> {}, calls |-> 0]

\* NewLMDB: m.mu free, m.mDBI empty, no DBI handle made.
InitLmdb ==
    /\ dbmu = [writer |-> 0, readers |-> {}]
    /\ mDBI = <<>>
    /\ dbis = <<>>
    /\ ocl = [c \in Openers |-> IdleOpener]

\* The callers of pendingBlockAndReceipts.
Readers == {1, 2}
IdleReader == [pc |-> "idle", block |-> <<>>, receipts |-> <<>>]

\* ------------------------------------------------------------ transactions
TxGasValues == {TxGas, TxGas + 1}

\* A candidate: its gas limit, the gas it uses when it applies, and what
\* applying it on the current state leads to.
TxSet ==
    {[gas |-> g, used |-> TxGas, kind |-> "ok"] : g \in TxGasValues}
    \cup {[gas |-> TxGas, used |-> TxGas, kind |-> k] : k \in {"other", "nonceLow", "nonceHigh"}}

RECURSIVE SeqsUpTo(_, _)
SeqsUpTo(S, n) ==
    IF n = 0 THEN {<<>>}
    ELSE LET shorter == SeqsUpTo(S, n - 1)
         IN shorter \cup {Append(s, x) : s \in {t \in shorter : Len(t) = n - 1}, x \in S}

TxPools == SeqsUpTo(TxSet, MaxTxs)

RECURSIVE SumGasUsed(_)
SumGasUsed(receipts) ==
    IF receipts = <<>> THEN 0
    ELSE receipts[1].gasUsed + SumGasUsed(Tail(receipts))

\* The external state-transition function on candidate i of the pulled list:
\* nonce checks, then GasBudget.consume(tx.gas), then execution; the unused
\* gas is added back on success.  A failure after the charge leaves the
\* budget charged and the state view dirty.
ApplyTransaction(tx, i, gp, state) ==
    CASE tx.kind = "nonceLow" ->
            [err |-> "ErrNonceTooLow", gasPool |-> gp, state |-> state, usedGas |-> 0]
      [] tx.kind = "nonceHigh" ->
            [err |-> "ErrNonceTooHigh", gasPool |-> gp, state |-> state, usedGas |-> 0]
      [] tx.kind \in {"ok", "other"} /\ tx.gas > gp ->
            [err |-> "ErrGasLimitReached", gasPool |-> gp, state |-> state, usedGas |-> 0]
      [] tx.kind = "other" /\ tx.gas <= gp ->
            [err |-> "ErrOther", gasPool |-> gp - tx.gas,
             state |-> Append(state, -i), usedGas |-> 0]
      [] OTHER ->
            [err |-> "nil", gasPool |-> gp - tx.used,
             state |-> Append(state, i), usedGas |-> tx.used]

\* ------------------------------------------------------------- environment
\* A candidate block as FinalizeAndAssemble returns it; its pre-seal hash is
\* the block itself, and a sealed block adds the engine's seal.
EmptyTask == [number |-> 0, time |-> 0, coinbase |-> ZeroAddress, txs |-> <<>>]

SealHash(blk) ==
    [number |-> blk.number, time |-> blk.time, coinbase |-> blk.coinbase, txs |-> blk.txs]

EmptyEnv ==
    [header |-> [number |-> 0, time |-> 0, gasLimit |-> 0, gasUsed |-> 0, coinbase |-> ZeroAddress],
     coinbase |-> ZeroAddress, gasPool |-> 0, tcount |-> 0, txs |-> <<>>, receipts |-> <<>>]

\* makeEnv with the budget not taken from the header's limit.
makeEnv_Headroom(header, cb) ==
    [header |-> header, coinbase |-> cb, gasPool |-> header.gasLimit + TxGas,
     tcount |-> 0, txs |-> <<>>, receipts |-> <<>>]

makeEnv(header, cb) ==
    [header |-> header, coinbase |-> cb, gasPool |-> header.gasLimit,
     tcount |-> 0, txs |-> <<>>, receipts |-> <<>>]

\* miningCommitTx without the restore of the gas pool on failure.
miningCommitTx_NoRestore(e, state, txs, i) ==
    LET snap == state
        r == ApplyTransaction(txs[i], i, e.gasPool, state)
    IN  IF r.err # "nil"
        THEN [env |-> [e EXCEPT !.gasPool = r.gasPool], state |-> snap, err |-> r.err]
        ELSE [env |-> [e EXCEPT !.gasPool = r.gasPool,
                                !.header.gasUsed = @ + r.usedGas,
                                !.txs = Append(@, i),
                                !.receipts = Append(@, [tx |-> i, gasUsed |-> r.usedGas])],
              state |-> r.state, err |-> "nil"]

\* miningCommitTx appending the receipt of the previous transaction again.
miningCommitTx_StaleReceipt(e, state, txs, i) ==
    LET gasSnap == e.gasPool
        snap == state
        r == ApplyTransaction(txs[i], i, e.gasPool, state)
        last == IF e.receipts = <<>> THEN [tx |-> i, gasUsed |-> r.usedGas]
                ELSE e.receipts[Len(e.receipts)]
    IN  IF r.err # "nil"
        THEN [env |-> [e EXCEPT !.gasPool = gasSnap], state |-> snap, err |-> r.err]
        ELSE [env |-> [e EXCEPT !.gasPool = r.gasPool,
                                !.header.gasUsed = @ + r.usedGas,
                                !.txs = Append(@, i),
                                !.receipts = Append(@, last)],
              state |-> r.state, err |-> "nil"]

\* miningCommitTx appending the transaction before the error is looked at.
miningCommitTx_AppendEarly(e, state, txs, i) ==
    LET gasSnap == e.gasPool
        snap == state
        r == ApplyTransaction(txs[i], i, e.gasPool, state)
    IN  IF r.err # "nil"
        THEN [env |-> [e EXCEPT !.gasPool = gasSnap, !.txs = Append(@, i)],
              state |-> snap, err |-> r.err]
        ELSE [env |-> [e EXCEPT !.gasPool = r.gasPool,
                                !.header.gasUsed = @ + r.usedGas,
                                !.txs = Append(@, i),
                                !.receipts = Append(@, [tx |-> i, gasUsed |-> r.usedGas])],
              state |-> r.state, err |-> "nil"]

\* miningCommitTx on candidate i: the environment and state view it leaves.
miningCommitTx(e, state, txs, i) ==
    LET gasSnap == e.gasPool
        snap == state
        r == ApplyTransaction(txs[i], i, e.gasPool, state)
    IN  IF r.err # "nil"
        THEN [env |-> [e EXCEPT !.gasPool = gasSnap], state |-> snap, err |-> r.err]
        ELSE [env |-> [e EXCEPT !.gasPool = r.gasPool,
                                !.header.gasUsed = @ + r.usedGas,
                                !.txs = Append(@, i),
                                !.receipts = Append(@, [tx |-> i, gasUsed |-> r.usedGas])],
              state |-> r.state, err |-> "nil"]

\* The gas check off by one.
notEnoughGas_OffByOne(e) == e.gasPool <= TxGas

\* if env.gasPool.Gas() < params.TxGas { break }
notEnoughGas(e) == e.gasPool < TxGas

\* One candidate of the loop in fillTransactions: miningCommitTx and the
\* switch on its error (tcount is incremented on success only; every error
\* goes on to the next candidate).
fillRound(e, state, txs, i) ==
    LET r == miningCommitTx(e, state, txs, i)
    IN  [env |-> IF r.err = "nil" THEN [r.env EXCEPT !.tcount = @ + 1] ELSE r.env,
         state |-> r.state, err |-> r.err]

\* signalToErr with the new-head and resubmit cases swapped.
signalToErr_Swapped(signal) ==
    CASE signal = commitInterruptNewHead -> "errBlockInterruptedByRecommit"
      [] signal = commitInterruptResubmit -> "errBlockInterruptedByNewHead"
      [] signal = commitInterruptTimeout -> "errBlockInterruptedByTimeout"
      [] OTHER -> "panic"

\* signalToErr with a default case that returns instead of panicking.
signalToErr_DefaultTimeout(signal) ==
    CASE signal = commitInterruptNewHead -> "errBlockInterruptedByNewHead"
      [] signal = commitInterruptResubmit -> "errBlockInterruptedByRecommit"
      [] OTHER -> "errBlockInterruptedByTimeout"

signalToErr(signal) ==
    CASE signal = commitInterruptNewHead -> "errBlockInterruptedByNewHead"
      [] signal = commitInterruptResubmit -> "errBlockInterruptedByRecommit"
      [] signal = commitInterruptTimeout -> "errBlockInterruptedByTimeout"
      [] OTHER -> "panic"

\* ---------------------------------------------------------------- workLoop
\* clearPending(number): the entries the loop deletes are those with
\* number.Cmp(t.block.Number64() + staleThreshold) < 1.
clearPending(tasks, number) ==
    {t \in tasks : ~(number <= t.number + staleThreshold)}

\* The flag a new request gets: one no live request refers to.
FreshFlag == IF req.interrupt # 1 THEN 1 ELSE 2

\* commit without the interrupt.Store(s) on the previous flag.
commit_NoSignal(s, ts) ==
    LET signalled == flags
        f == FreshFlag
    IN  /\ flags' = (f :> commitInterruptNone) @@ signalled
        /\ interrupt' = f
        /\ newWorkCh' = [interrupt |-> f, timestamp |-> ts]
        /\ wpc' = "commit"

\* commit storing the resubmit signal whatever it is called with.
commit_StoreResubmit(s, ts) ==
    LET signalled == IF interrupt # 0
                     THEN [flags EXCEPT ![interrupt] = commitInterruptResubmit]
                     ELSE flags
        f == FreshFlag
    IN  /\ flags' = (f :> commitInterruptNone) @@ signalled
        /\ interrupt' = f
        /\ newWorkCh' = [interrupt |-> f, timestamp |-> ts]
        /\ wpc' = "commit"

\* commit(noempty, s): signal the previous request, issue a fresh one and
\* block sending it on newWorkCh.  flags holds the flags issued so far; a
\* flag no request refers to any more gives its place to the new one.
commit(s, ts) ==
    LET signalled == IF interrupt # 0 THEN [flags EXCEPT ![interrupt] = s] ELSE flags
        f == FreshFlag
    IN  /\ flags' = (f :> commitInterruptNone) @@ signalled
        /\ interrupt' = f
        /\ newWorkCh' = [interrupt |-> f, timestamp |-> ts]
        /\ wpc' = "commit"

\* case <-w.startCh
WorkLoopStart ==
    /\ wpc = "select"
    /\ startCh > 0
    /\ startCh' = startCh - 1
    /\ pendingTasks' = clearPending(pendingTasks, head)
    /\ \E ts \in timestamp..MaxTime :
        /\ timestamp' = ts
        /\ commit(commitInterruptNewHead, ts)
    /\ UNCHANGED <<sealVars, resultVars, callerVars, running, coinbase, adjustCh, newBlockCh, chainVars,
                   recommit, minRecommit, timerArmed, buildVars, snapVars, ctxVars, libVars>>

\* case blockEvent := <-newBlockCh
WorkLoopNewBlock ==
    /\ wpc = "select"
    /\ \E n \in newBlockCh :
        /\ newBlockCh' = newBlockCh \ {n}
        /\ pendingTasks' = clearPending(pendingTasks, n)
    /\ \E ts \in timestamp..MaxTime :
        /\ timestamp' = ts
        /\ commit(commitInterruptNewHead, ts)
    /\ UNCHANGED <<sealVars, resultVars, callerVars, running, coinbase, startCh, adjustCh, chainVars,
                   recommit, minRecommit, timerArmed, buildVars, snapVars, ctxVars, libVars>>

\* case <-timer.C with the periodic resubmit of the commented-out body.
WorkLoopTimer_Resubmit ==
    /\ wpc = "select"
    /\ timerArmed
    /\ timerArmed' = FALSE
    /\ IF running
       THEN commit(commitInterruptResubmit, timestamp)
       ELSE UNCHANGED <<wpc, interrupt, newWorkCh, flags>>
    /\ UNCHANGED <<sealVars, resultVars, callerVars, sharedVars, adjustCh, newBlockCh, chainVars,
                   recommit, minRecommit, timestamp, buildVars, snapVars, ctxVars, libVars>>

\* case <-timer.C: the body is commented out.
WorkLoopTimer ==
    /\ wpc = "select"
    /\ timerArmed
    /\ timerArmed' = FALSE
    /\ UNCHANGED <<sealVars, resultVars, callerVars, sharedVars, newWorkCh, adjustCh, newBlockCh, flags, chainVars,
                   wpc, interrupt, recommit, minRecommit, timestamp, buildVars, snapVars, ctxVars, libVars>>

\* recalcRecommit(minRecommit, prev, target, inc), in milliseconds; the
\* target -1 stands for the +Inf the division by a zero ratio yields.
recalcRecommit(minRec, prevRecommit, target, inc) ==
    IF inc
    THEN IF target = -1 THEN maxRecommitInterval
         ELSE LET next == (9 * prevRecommit + (target + intervalAdjustBias)) \div 10
              IN IF next > maxRecommitInterval THEN maxRecommitInterval ELSE next
    ELSE LET next == (9 * prevRecommit + (target - intervalAdjustBias)) \div 10
         IN IF next < minRec THEN minRec ELSE next

\* float64(recommit.Nanoseconds()) / adjust.ratio, the ratio given as num/den
Target(prevRecommit, ratio) ==
    IF ratio.num = 0 THEN -1 ELSE (prevRecommit * ratio.den) \div ratio.num

\* case adjust := <-w.resubmitAdjustCh
WorkLoopAdjust ==
    /\ wpc = "select"
    /\ adjustCh # <<>>
    /\ LET adjust == Head(adjustCh)
       IN recommit' =
            IF adjust.inc
            THEN recalcRecommit(minRecommit, recommit, Target(recommit, adjust.ratio), TRUE)
            ELSE recalcRecommit(minRecommit, recommit, minRecommit, FALSE)
    /\ adjustCh' = Tail(adjustCh)
    /\ UNCHANGED <<sealVars, resultVars, callerVars, sharedVars, newWorkCh, newBlockCh, flags, chainVars,
                   wpc, interrupt, minRecommit, timestamp, timerArmed, buildVars, snapVars, ctxVars, libVars>>

\* ----------------------------------------------------------------- runLoop
NoReq == [interrupt |-> 0, timestamp |-> 0]

\* commitWork returns: its request, environment and state view are dropped.
CommitWorkReturn ==
    /\ rpc' = "select"
    /\ req' = NoReq
    /\ env' = EmptyEnv
    /\ ibs' = <<>>
    /\ fillTxs' = <<>>
    /\ fillIdx' = 1
    /\ fillErr' = "nil"
    /\ attempted' = <<>>
    /\ task' = EmptyTask

CommitWorkFail_ExitsLoop ==
    /\ rpc' = "done"
    /\ req' = NoReq
    /\ env' = EmptyEnv
    /\ ibs' = <<>>
    /\ fillTxs' = <<>>
    /\ fillIdx' = 1
    /\ fillErr' = "nil"
    /\ attempted' = <<>>
    /\ task' = EmptyTask

\* commitWork returns an error: runLoop logs it and goes back to its select.
CommitWorkFail == CommitWorkReturn

\* case req := <-w.newWorkCh, together with the send in workLoop.commit and
\* the timer.Reset(recommit) that follows it.
RunLoopRecv ==
    /\ rpc = "select"
    /\ wpc = "commit"
    /\ req' = newWorkCh
    /\ rpc' = "commitWork"
    /\ wpc' = "select"
    /\ newWorkCh' = NoReq
    /\ timerArmed' = TRUE
    /\ UNCHANGED <<sealVars, resultVars, callerVars, sharedVars, adjustCh, newBlockCh, flags, chainVars,
                   interrupt, recommit, minRecommit, timestamp,
                   env, ibs, fillTxs, fillIdx, fillErr, attempted, task, snapVars, ctxVars, libVars>>

\* commitWork, the coinbase check.
CommitWorkCheck ==
    /\ rpc = "commitWork"
    /\ IF running /\ coinbase = ZeroAddress
       THEN CommitWorkFail
       ELSE /\ rpc' = "prepare"
            /\ UNCHANGED <<req, env, ibs, fillTxs, fillIdx, fillErr, attempted, task>>
    /\ UNCHANGED <<sealVars, resultVars, callerVars, sharedVars, newWorkCh, adjustCh, newBlockCh, flags, chainVars, workVars, snapVars, ctxVars, libVars>>

\* prepareWork, BeginRo and the head of fillTransactions: a fresh environment
\* on the current head and the candidates pulled from the pool, or a failed
\* cycle (Prepare or BeginRo failed).
PrepareWork ==
    /\ rpc = "prepare"
    /\ \E ok \in BOOLEAN, poolOk \in BOOLEAN :
        IF ~ok
        THEN CommitWorkFail
        ELSE /\ UNCHANGED <<req, attempted, task>>
             /\ env' = makeEnv([number |-> head + 1, time |-> req.timestamp,
                                gasLimit |-> chainGasLimit, gasUsed |-> 0,
                                coinbase |-> coinbase], coinbase)
             /\ ibs' = <<>>
             /\ IF poolOk
                THEN /\ fillTxs' = txsPool
                     /\ fillIdx' = 1
                     /\ fillErr' = "nil"
                     /\ rpc' = "fill"
                ELSE /\ fillTxs' = <<>>
                     /\ fillIdx' = 1
                     /\ fillErr' = "errPool"
                     /\ rpc' = "dispatch"
    /\ UNCHANGED <<sealVars, resultVars, callerVars, sharedVars, newWorkCh, adjustCh, newBlockCh, flags, chainVars, workVars, snapVars, ctxVars, libVars>>

\* One round of the loop over the candidates in fillTransactions.
FillStep ==
    /\ rpc = "fill"
    /\ IF fillIdx > Len(fillTxs)
       THEN /\ fillErr' = "nil"
            /\ rpc' = "dispatch"
            /\ UNCHANGED <<env, ibs, fillIdx, attempted>>
       ELSE IF flags[req.interrupt] # commitInterruptNone
       THEN /\ fillErr' = signalToErr(flags[req.interrupt])
            /\ rpc' = IF signalToErr(flags[req.interrupt]) = "panic" THEN "panic" ELSE "dispatch"
            /\ UNCHANGED <<env, ibs, fillIdx, attempted>>
       ELSE IF notEnoughGas(env)
       THEN /\ fillErr' = "nil"
            /\ rpc' = "dispatch"
            /\ UNCHANGED <<env, ibs, fillIdx, attempted>>
       ELSE LET r == fillRound(env, ibs, fillTxs, fillIdx)
            IN  /\ env' = r.env
                /\ ibs' = r.state
                /\ fillIdx' = fillIdx + 1
                /\ attempted' = Append(attempted, [tx |-> fillIdx, err |-> r.err])
                /\ UNCHANGED <<fillErr, rpc>>
    /\ UNCHANGED <<sealVars, resultVars, callerVars, sharedVars, newWorkCh, adjustCh, newBlockCh, flags, chainVars,
                   workVars, req, fillTxs, task, snapVars, ctxVars, libVars>>

\* The message commitWork sends on resubmitAdjustCh for the result of
\* fillTransactions (none for any other error).
Feedback_IncOnNewHead(err, e) ==
    CASE err = "nil" -> <<[inc |-> FALSE, ratio |-> [num |-> 0, den |-> 1]]>>
      [] err \in {"errBlockInterruptedByRecommit", "errBlockInterruptedByNewHead"} ->
            <<[inc |-> TRUE, ratio |-> [num |-> 1, den |-> 10]]>>
      [] OTHER -> <<>>

Feedback(err, e) ==
    CASE err = "nil" -> <<[inc |-> FALSE, ratio |-> [num |-> 0, den |-> 1]]>>
      [] err = "errBlockInterruptedByRecommit" ->
            LET used == e.header.gasLimit - e.gasPool
            IN  <<[inc |-> TRUE,
                   ratio |-> IF e.header.gasLimit = 0 \/ 10 * used < e.header.gasLimit
                             THEN [num |-> 1, den |-> 10]
                             ELSE [num |-> used, den |-> e.header.gasLimit]]>>
      [] OTHER -> <<>>

\* commitWork returning the error of fillTransactions instead of going on.
CommitWorkDispatch_Abandon ==
    /\ rpc = "dispatch"
    /\ Len(adjustCh) + Len(Feedback(fillErr, env)) <= resubmitAdjustChanSize
    /\ adjustCh' = adjustCh \o Feedback(fillErr, env)
    /\ IF fillErr = "nil"
       THEN /\ rpc' = "commit"
            /\ UNCHANGED <<req, env, ibs, fillTxs, fillIdx, fillErr, attempted, task>>
       ELSE CommitWorkReturn
    /\ UNCHANGED <<sealVars, resultVars, callerVars, sharedVars, newWorkCh, newBlockCh, flags, chainVars,
                   workVars, snapVars, ctxVars, libVars>>

\* commitWork, the switch on the error of fillTransactions.
CommitWorkDispatch ==
    /\ rpc = "dispatch"
    /\ Len(adjustCh) + Len(Feedback(fillErr, env)) <= resubmitAdjustChanSize
    /\ adjustCh' = adjustCh \o Feedback(fillErr, env)
    /\ rpc' = "commit"
    /\ UNCHANGED <<sealVars, resultVars, callerVars, sharedVars, newWorkCh, newBlockCh, flags, chainVars,
                   workVars, req, env, ibs, fillTxs, fillIdx, fillErr, attempted, task, snapVars, ctxVars, libVars>>

\* block.NewBlockFromReceipt(env.header, env.txs, nil, env.receipts, rewards)
NewBlockFromReceipt(e) == [header |-> e.header, txs |-> e.txs, receipts |-> e.receipts]

copyReceipts(receipts) == receipts

NoBlock == [header |-> EmptyEnv.header, txs |-> <<>>, receipts |-> <<>>]

\* commit updating the snapshot although the worker is not running.
CommitIdle_UpdatesSnapshot ==
    /\ rpc = "commit"
    /\ ~running
    /\ CommitWorkReturn
    /\ snapshotBlock' = NewBlockFromReceipt(env)
    /\ snapshotReceipts' = copyReceipts(env.receipts)
    /\ UNCHANGED <<sealVars, resultVars, callerVars, sharedVars, newWorkCh, adjustCh, newBlockCh, flags, chainVars, workVars, snapshotMu, upc, uenv, rdr, ctxVars, libVars>>

\* commit: nothing is finalized while the worker is not running.
CommitIdle ==
    /\ rpc = "commit"
    /\ ~running
    /\ CommitWorkReturn
    /\ UNCHANGED <<sealVars, resultVars, callerVars, sharedVars, newWorkCh, adjustCh, newBlockCh, flags, chainVars, workVars, snapVars, ctxVars, libVars>>

\* commit while running: FinalizeAndAssemble on a copy of the environment
\* (it may fail), updateSnapshot, and the task ready to be sent on taskCh.
CommitFinalize ==
    /\ rpc = "commit"
    /\ running
    /\ \E ok \in BOOLEAN :
        IF ok
        THEN /\ task' = [number |-> env.header.number, time |-> env.header.time,
                         coinbase |-> env.header.coinbase, txs |-> env.txs]
             /\ snapshotMu = 0
             /\ snapshotBlock' = NewBlockFromReceipt(env)
             /\ snapshotReceipts' = copyReceipts(env.receipts)
             /\ rpc' = "sendTask"
             /\ UNCHANGED <<req, env, ibs, fillTxs, fillIdx, fillErr, attempted>>
        ELSE /\ CommitWorkFail
             /\ UNCHANGED <<snapshotBlock, snapshotReceipts>>
    /\ UNCHANGED <<sealVars, resultVars, callerVars, sharedVars, newWorkCh, adjustCh, newBlockCh,
                   flags, chainVars, workVars, snapshotMu, upc, uenv, rdr, ctxVars, libVars>>

\* ---------------------------------------------------------------- taskLoop
Without(tasks, sealHash) == {t \in tasks : SealHash(t) # sealHash}

\* taskLoop's stopCh variable (nil, or the channel it refers to, open or
\* closed), the number of cancellation channels that are open, and whether
\* a closed channel was closed again.
NoChan == [ref |-> "nil", open |-> 0, closedTwice |-> FALSE]

\* interrupt() leaving the channel open.
taskInterrupt_NoClose(c) == [c EXCEPT !.ref = "nil"]

\* interrupt(): close(stopCh) and stopCh = nil, if stopCh is not nil.
taskInterrupt(c) ==
    IF c.ref = "nil" THEN c
    ELSE [ref |-> "nil",
          open |-> IF c.ref = "open" THEN c.open - 1 ELSE c.open,
          closedTwice |-> c.closedTwice \/ c.ref = "closed"]

\* make(chan struct{})
MakeChan(c) == [c EXCEPT !.ref = "open", !.open = @ + 1]

IsPrev_Never(sealHash) == FALSE

\* sealHash == prev
IsPrev(sealHash) == sealHash \in prev

\* case task := <-w.taskCh, together with the send in commit: a task with
\* the previous pre-seal hash is dropped; otherwise the previous attempt is
\* interrupted and the task registered under its pre-seal hash.
TaskLoopRecv ==
    /\ rpc = "sendTask"
    /\ tpc = "select"
    /\ CommitWorkReturn
    /\ IF IsPrev(SealHash(task))
       THEN UNCHANGED <<sealVars, pendingTasks>>
       ELSE /\ stopCh' = MakeChan(taskInterrupt(stopCh))
            /\ sealing' = IF stopCh'.open > 1 THEN sealing ELSE {}
            /\ prev' = {SealHash(task)}
            /\ pendingTasks' = Without(pendingTasks, SealHash(task)) \cup {task}
            /\ sealTask' = task
            /\ sealErr' = "nil"
            /\ tpc' = "seal"
    /\ UNCHANGED <<running, coinbase, startCh, resultVars, callerVars, newWorkCh, adjustCh,
                   newBlockCh, flags, chainVars, workVars, snapVars, ctxVars, libVars>>

AfterSealError_AlwaysRetry(err) == "sendStart"

\* if errors.Is(err, consensus.ErrNotEnoughSign): the back-off and the send
\* on startCh; otherwise back to the select.
AfterSealError(err) == IF err = "ErrNotEnoughSign" THEN "sendStart" ELSE "select"

\* w.engine.Seal returns: the attempt runs in the engine, or the task is
\* deleted and, for ErrNotEnoughSign, a start signal follows the back-off.
TaskLoopSeal ==
    /\ tpc = "seal"
    /\ \E err \in {"nil", "ErrNotEnoughSign", "ErrOther"} :
        /\ sealErr' = err
        /\ IF err = "nil"
           THEN /\ sealing' = sealing \cup {sealTask}
                /\ tpc' = "select"
                /\ sealTask' = EmptyTask
                /\ UNCHANGED pendingTasks
           ELSE /\ pendingTasks' = Without(pendingTasks, SealHash(sealTask))
                /\ tpc' = AfterSealError(err)
                /\ sealTask' = EmptyTask
                /\ UNCHANGED sealing
    /\ UNCHANGED <<running, coinbase, startCh, prev, stopCh, resultVars, callerVars, newWorkCh,
                   adjustCh, newBlockCh, flags, chainVars, workVars, buildVars, snapVars,
                   ctxVars, libVars>>

\* w.startCh <- struct{}{} after the back-off
TaskLoopSendStart ==
    /\ tpc = "sendStart"
    /\ startCh = 0
    /\ startCh' = 1
    /\ tpc' = "select"
    /\ UNCHANGED <<running, coinbase, pendingTasks, prev, sealTask, sealing, stopCh, sealErr,
                   resultVars, callerVars, newWorkCh, adjustCh, newBlockCh, flags, chainVars,
                   workVars, buildVars, snapVars, ctxVars, libVars>>

\* -------------------------------------------------------------- resultLoop
\* case blk := <-w.resultCh, the engine delivering the sealed block of a
\* running attempt: duplicate check, lookup by pre-seal hash, write, events.
\* The sealed blocks the engine can deliver for a task: the task's block
\* under one of the seals.
Seals == {"a", "b"}
Sealed(t, seal) ==
    [number |-> t.number, time |-> t.time, coinbase |-> t.coinbase, txs |-> t.txs,
     seal |-> seal]

\* w.pendingTasks[sealhash], exist
Registered(blk) == \E t \in pendingTasks : SealHash(t) = SealHash(blk)

\* w.chain.HasBlock(blk.Hash(), number): the chain store holds the block
HasBlock(blk) == blk \in chainBlocks

ResultOutcome_NoShortCircuit(blk, writeOk, sealedOk) ==
    IF ~Registered(blk) THEN "no pending task"
    ELSE IF ~writeOk THEN "write failed"
    ELSE IF ~sealedOk THEN "broadcast failed"
    ELSE "written"

\* The handler without the lookup by pre-seal hash.
ResultOutcome_NoLookup(blk, writeOk, sealedOk) ==
    IF HasBlock(blk) THEN "duplicate"
    ELSE IF ~writeOk THEN "write failed"
    ELSE IF ~sealedOk THEN "broadcast failed"
    ELSE "written"

\* The branch the handler takes for blk: the HasBlock short circuit, the
\* lookup by pre-seal hash, WriteBlockWithState, SealedBlock.
ResultOutcome(blk, writeOk, sealedOk) ==
    IF HasBlock(blk) THEN "duplicate"
    ELSE IF ~Registered(blk) THEN "no pending task"
    ELSE IF ~writeOk THEN "write failed"
    ELSE IF ~sealedOk THEN "broadcast failed"
    ELSE "written"

ResultLoopRecv ==
    \E t \in sealing, seal \in Seals, writeOk \in BOOLEAN, sealedOk \in BOOLEAN :
        LET blk == Sealed(t, seal)
            outcome == ResultOutcome(blk, writeOk, sealedOk)
        IN  /\ xpc = "select"
            /\ blk.number <= MaxHead
            /\ Cardinality(chainBlocks \cup {blk}) <= MaxBlocks
            /\ lastResult' = outcome
            /\ IF outcome \in {"written", "broadcast failed"}
               THEN /\ chainBlocks' = chainBlocks \cup {blk}
                    /\ writes' = writes + 1
                    /\ head' = IF blk.number > head THEN blk.number ELSE head
               ELSE UNCHANGED <<chainBlocks, writes, head>>
            /\ newBlockCh' = IF outcome = "written" THEN {blk.number} ELSE newBlockCh
            /\ UNCHANGED <<sharedVars, newWorkCh, adjustCh, flags, txsPool, chainGasLimit,
                           workVars, buildVars, sealVars, callerVars, snapVars, ctxVars, libVars>>

\* ------------------------------------------------ resultLoop, step by step
\* The handler with its receipts and logs as objects in memory: a task
\* holds references to its receipts, a receipt references to its logs.
\* The zero hash: the hash of no sealed block.
NoHash == [number |-> 0, time |-> 0, coinbase |-> ZeroAddress, txs |-> <<>>, seal |-> "none"]
NoLocals == [blk |-> NoHash, task |-> EmptyTask, receipts |-> <<>>, logs |-> <<>>]

\* The receipt and the log as the build left them: no block location yet.
NewReceipt(logRefs) ==
    [blockHash |-> NoHash, blockNumber |-> 0, transactionIndex |-> 0, logs |-> logRefs]
NewLog == [blockHash |-> NoHash]

\* receipt := taskReceipt, the location fields and the logs written into the
\* task's own objects.
StampOne_InPlace(st, tr, i, hash, number) ==
    LET old == st.rheap[tr]
    IN  [rheap |-> [st.rheap EXCEPT ![tr] = [old EXCEPT !.blockHash = hash,
                                                        !.blockNumber = number,
                                                        !.transactionIndex = i - 1]],
         lheap |-> [l \in DOMAIN st.lheap |->
                       IF \E k \in DOMAIN old.logs : old.logs[k] = l
                       THEN [st.lheap[l] EXCEPT !.blockHash = hash]
                       ELSE st.lheap[l]],
         receipts |-> Append(st.receipts, tr),
         logs |-> st.logs \o old.logs]

\* One round of the loop over task.receipts: a new receipt, the copy of the
\* task's receipt with BlockHash, BlockNumber and TransactionIndex set, and
\* for each of its logs a new log, the copy with BlockHash set.
StampOne(st, tr, i, hash, number) ==
    LET old == st.rheap[tr]
        n == Len(old.logs)
        newLogs == [k \in 1..n |-> [st.lheap[old.logs[k]] EXCEPT !.blockHash = hash]]
        logRefs == [k \in 1..n |-> Len(st.lheap) + k]
        receipt == [old EXCEPT !.blockHash = hash, !.blockNumber = number,
                               !.transactionIndex = i - 1, !.logs = logRefs]
    IN  [rheap |-> Append(st.rheap, receipt),
         lheap |-> st.lheap \o newLogs,
         receipts |-> Append(st.receipts, Len(st.rheap) + 1),
         logs |-> st.logs \o logRefs]

RECURSIVE StampFrom(_, _, _, _, _)
StampFrom(st, trs, i, hash, number) ==
    IF i > Len(trs) THEN st
    ELSE StampFrom(StampOne(st, trs[i], i, hash, number), trs, i + 1, hash, number)

\* The pending task with the pre-seal hash of blk.
TaskOf(blk) == CHOOSE t \in pendingTasks : SealHash(t) = SealHash(blk)

AfterWrite_NoContinue(ok) == "logs"

\* if err != nil { continue } after WriteBlockWithState
AfterWrite(ok) == IF ok THEN "logs" ELSE "select"

NotHandler == <<sharedVars, newWorkCh, adjustCh, flags, txsPool, chainGasLimit, workVars,
                buildVars, sealVars, callerVars, snapVars, ctxDone, addrVars, sigVars, guardVars,
                copyVars, topicVars, dbiVars>>

\* case blk := <-w.resultCh, the HasBlock short circuit and the lookup in
\* pendingTasks.
HandlerRecv ==
    /\ xpc = "select"
    /\ deliveries < MaxDeliveries
    /\ \E t \in sealing, seal \in Seals :
        LET blk == Sealed(t, seal)
        IN  IF HasBlock(blk)
            THEN /\ lastResult' = "duplicate"
                 /\ UNCHANGED <<xpc, hl>>
            ELSE IF ~Registered(blk)
            THEN /\ lastResult' = "no pending task"
                 /\ UNCHANGED <<xpc, hl>>
            ELSE /\ hl' = [NoLocals EXCEPT !.blk = blk, !.task = TaskOf(blk)]
                 /\ xpc' = "stamp"
                 /\ UNCHANGED lastResult
    /\ deliveries' = deliveries + 1
    /\ UNCHANGED <<NotHandler, newBlockCh, head, chainBlocks, writes, rheap, lheap, store, effects>>

\* the loop over task.receipts
HandlerStamp ==
    /\ xpc = "stamp"
    /\ LET st == StampFrom([rheap |-> rheap, lheap |-> lheap, receipts |-> <<>>, logs |-> <<>>],
                           hl.task.receipts, 1, hl.blk, hl.blk.number)
       IN  /\ rheap' = st.rheap
           /\ lheap' = st.lheap
           /\ hl' = [hl EXCEPT !.receipts = st.receipts, !.logs = st.logs]
    /\ xpc' = "write"
    /\ UNCHANGED <<NotHandler, newBlockCh, head, resultVars, store, effects, deliveries>>

\* w.chain.WriteBlockWithState(blk, receipts, task.state, task.nopay)
HandlerWrite ==
    /\ xpc = "write"
    /\ \E ok \in BOOLEAN :
        /\ xpc' = AfterWrite(ok)
        /\ IF ok
           THEN /\ chainBlocks' = chainBlocks \cup {hl.blk}
                /\ writes' = writes + 1
                /\ head' = IF hl.blk.number > head THEN hl.blk.number ELSE head
                /\ store' = store \cup {[blk |-> hl.blk, receipts |-> hl.receipts]}
                /\ effects' = Append(effects, [kind |-> "write", blk |-> hl.blk, logs |-> <<>>])
                /\ UNCHANGED lastResult
           ELSE /\ lastResult' = "write failed"
                /\ UNCHANGED <<chainBlocks, writes, head, store, effects>>
    /\ UNCHANGED <<NotHandler, newBlockCh, hl, rheap, lheap, deliveries>>

\* if len(logs) > 0 { event.GlobalEvent.Send(common.NewLogsEvent{Logs: logs}) }
HandlerLogs ==
    /\ xpc = "logs"
    /\ effects' = IF Len(hl.logs) > 0
                  THEN Append(effects, [kind |-> "logs", blk |-> hl.blk, logs |-> hl.logs])
                  ELSE effects
    /\ xpc' = "sealed"
    /\ UNCHANGED <<NotHandler, newBlockCh, head, resultVars, hl, rheap, lheap, store, deliveries>>

\* w.chain.SealedBlock(blk)
HandlerSealedBlock ==
    /\ xpc = "sealed"
    /\ effects' = Append(effects, [kind |-> "broadcast", blk |-> hl.blk, logs |-> <<>>])
    /\ \E ok \in BOOLEAN :
        /\ xpc' = IF ok THEN "highest" ELSE "select"
        /\ lastResult' = IF ok THEN lastResult ELSE "broadcast failed"
    /\ UNCHANGED <<NotHandler, newBlockCh, head, chainBlocks, writes, hl, rheap, lheap, store,
                   deliveries>>

\* event.GlobalEvent.Send(common.ChainHighestBlock{...})
HandlerHighest ==
    /\ xpc = "highest"
    /\ effects' = Append(effects, [kind |-> "highest", blk |-> hl.blk, logs |-> <<>>])
    /\ newBlockCh' = {hl.blk.number}
    /\ lastResult' = "written"
    /\ xpc' = "select"
    /\ UNCHANGED <<NotHandler, head, chainBlocks, writes, hl, rheap, lheap, store, deliveries>>

\* The numbers of logs of the receipts of a task.
LogCounts == SeqsUpTo(0..MaxReceipts, MaxReceipts)

\* Receipt i of a task with these log counts refers to the logs after those
\* of the receipts before it.
RECURSIVE LogsBefore(_, _)
LogsBefore(counts, i) == IF i = 1 THEN 0 ELSE LogsBefore(counts, i - 1) + counts[i - 1]

\* ------------------------------------------------------------ collaborators
\* start(): the running flag, then the send on startCh.
ExtStart ==
    /\ spc = "idle"
    /\ calls < MaxCalls
    /\ calls' = calls + 1
    /\ running' = TRUE
    /\ spc' = "sendStart"
    /\ UNCHANGED <<coinbase, pendingTasks, startCh, newWorkCh, adjustCh, newBlockCh, flags,
                   chainVars, workVars, buildVars, sealVars, resultVars, snapVars, ctxVars, libVars>>

ExtStartSend ==
    /\ spc = "sendStart"
    /\ startCh = 0
    /\ startCh' = 1
    /\ spc' = "idle"
    /\ UNCHANGED <<running, coinbase, pendingTasks, newWorkCh, adjustCh, newBlockCh, flags,
                   chainVars, workVars, buildVars, sealVars, resultVars, calls, snapVars, ctxVars, libVars>>

\* stop()
ExtStop ==
    /\ running
    /\ calls < MaxCalls
    /\ calls' = calls + 1
    /\ running' = FALSE
    /\ UNCHANGED <<coinbase, pendingTasks, startCh, newWorkCh, adjustCh, newBlockCh, flags,
                   chainVars, workVars, buildVars, sealVars, resultVars, spc, snapVars, ctxVars, libVars>>

\* setCoinbase(addr)
ExtSetCoinbase ==
    /\ calls < MaxCalls
    /\ calls' = calls + 1
    /\ \E a \in Addresses \ {coinbase} : coinbase' = a
    /\ UNCHANGED <<running, pendingTasks, startCh, newWorkCh, adjustCh, newBlockCh, flags,
                   chainVars, workVars, buildVars, sealVars, resultVars, spc, snapVars, ctxVars, libVars>>

\* The height the network announces: one far ahead of the worker's blocks.
NewHeads == {MaxHead}

\* The chain gets a new canonical head from the network and publishes it.
ChainNewHead ==
    /\ \E n \in {h \in NewHeads : h > head} :
        /\ head' = n
        /\ newBlockCh' = {n}
    /\ UNCHANGED <<sealVars, resultVars, callerVars, sharedVars, newWorkCh, adjustCh, flags, txsPool, chainGasLimit,
                   workVars, buildVars, snapVars, ctxVars, libVars>>

\* ------------------------------------------------------------ specification
\* newWorker(init = true): the loops at their selects, one start token.
InitTable ==
    /\ pendingTasks = {}
    /\ sealing = {}
    /\ rheap = <<>>
    /\ lheap = <<>>

InitRest(confRecommit) ==
    /\ startCh = 1
    /\ newWorkCh = NoReq
    /\ adjustCh = <<>>
    /\ newBlockCh = {}
    /\ flags = <<>>
    /\ wpc = "select"
    /\ interrupt = 0
    /\ minRecommit = IF confRecommit < minPeriodInterval THEN minPeriodInterval
                     ELSE confRecommit
    /\ recommit = minRecommit
    /\ timestamp = 0
    /\ timerArmed = FALSE
    /\ rpc = "select"
    /\ req = NoReq
    /\ env = EmptyEnv
    /\ ibs = <<>>
    /\ fillTxs = <<>>
    /\ fillIdx = 1
    /\ fillErr = "nil"
    /\ attempted = <<>>
    /\ task = EmptyTask
    /\ tpc = "select"
    /\ prev = {}
    /\ sealTask = EmptyTask
    /\ stopCh = NoChan
    /\ sealErr = "nil"
    /\ chainBlocks = {}
    /\ lastResult = "none"
    /\ writes = 0
    /\ calls = 0
    /\ snapshotBlock = NoBlock
    /\ snapshotReceipts = <<>>
    /\ snapshotMu = 0
    /\ upc = "idle"
    /\ uenv = EmptyEnv
    /\ rdr = [r \in Readers |-> IdleReader]
    /\ ctxDone = FALSE
    /\ xpc = "select"
    /\ InitAddrLocker
    /\ sigArg = 0
    /\ sigRet = "none"
    /\ hl = NoLocals
    /\ store = {}
    /\ effects = <<>>
    /\ deliveries = 0
    /\ InitGuards
    /\ mem = <<>>
    /\ envs = <<>>
    /\ ops = 0
    /\ InitTopics
    /\ InitLmdb

InitLoops(confRecommit) == InitTable /\ InitRest(confRecommit)


InitWorker(confRecommit) ==
    /\ running = FALSE
    /\ coinbase = ZeroAddress
    /\ spc = "idle"
    /\ InitLoops(confRecommit)

\* The result handler alone: one task, built with any receipts and logs, is
\* registered (or was purged) and its attempt runs in the engine, which
\* delivers sealed blocks of it.
InitHandler ==
    /\ running = TRUE
    /\ coinbase = 1
    /\ spc = "idle"
    /\ head = 0
    /\ txsPool = <<>>
    /\ chainGasLimit = TxGas
    /\ InitRest(0)
    /\ \E counts \in LogCounts, registered \in BOOLEAN :
        LET t == [number |-> 1, time |-> 0, coinbase |-> 1, txs |-> <<>>,
                  receipts |-> [i \in 1..Len(counts) |-> i]]
        IN  /\ rheap = [i \in 1..Len(counts) |->
                          NewReceipt([k \in 1..counts[i] |-> LogsBefore(counts, i) + k])]
            /\ lheap = [l \in 1..LogsBefore(counts, Len(counts) + 1) |-> NewLog]
            /\ sealing = {t}
            /\ pendingTasks = IF registered THEN {t} ELSE {}

NextHandler ==
    \/ HandlerRecv
    \/ HandlerStamp
    \/ HandlerWrite
    \/ HandlerLogs
    \/ HandlerSealedBlock
    \/ HandlerHighest

SpecHandler == InitHandler /\ [][NextHandler]_vars

\* A worker that is never started assembles pending blocks only.
InitFill ==
    /\ InitWorker(0)
    /\ head = MaxHead - 1
    /\ txsPool \in TxPools
    /\ chainGasLimit \in 0..MaxGasLimit

NextFill ==
    \/ WorkLoopStart
    \/ WorkLoopNewBlock
    \/ WorkLoopTimer
    \/ WorkLoopAdjust
    \/ RunLoopRecv
    \/ CommitWorkCheck
    \/ PrepareWork
    \/ FillStep
    \/ CommitWorkDispatch
    \/ CommitIdle
    \/ ChainNewHead

SpecFill == InitFill /\ [][NextFill]_vars

\* The scheduler with its callers, the chain and the engine.
Init ==
    /\ InitWorker(0)
    /\ head = 0
    /\ txsPool = <<>>
    /\ chainGasLimit = TxGas

Next ==
    \/ WorkLoopStart
    \/ WorkLoopNewBlock
    \/ WorkLoopTimer
    \/ WorkLoopAdjust
    \/ RunLoopRecv
    \/ CommitWorkCheck
    \/ PrepareWork
    \/ FillStep
    \/ CommitWorkDispatch
    \/ CommitIdle
    \/ CommitFinalize
    \/ TaskLoopRecv
    \/ TaskLoopSeal
    \/ TaskLoopSendStart
    \/ ResultLoopRecv
    \/ ExtStart
    \/ ExtStartSend
    \/ ExtStop
    \/ ExtSetCoinbase
    \/ ChainNewHead

Spec == Init /\ [][Next]_vars

\* The mining worker under fair scheduling.  setCoinbase and start() have
\* been called; start()'s send on startCh is pending behind the initial
\* token.  A loop that can take a step eventually takes one, and a select
\* whose start case is ready again and again eventually takes it.
InitMining ==
    /\ running = TRUE
    /\ coinbase \in Addresses \ {ZeroAddress}
    /\ spc = "sendStart"
    /\ InitLoops(0)
    /\ head = 0
    /\ txsPool = <<>>
    /\ chainGasLimit = TxGas

WorkLoopStep == WorkLoopStart \/ WorkLoopNewBlock \/ WorkLoopTimer \/ WorkLoopAdjust
RunLoopStep ==
    \/ RunLoopRecv
    \/ CommitWorkCheck
    \/ PrepareWork
    \/ FillStep
    \/ CommitWorkDispatch
    \/ CommitFinalize
TaskLoopStep == TaskLoopRecv \/ TaskLoopSeal \/ TaskLoopSendStart

NextMining ==
    \/ WorkLoopStep
    \/ RunLoopStep
    \/ TaskLoopStep
    \/ ExtStart
    \/ ExtStartSend
    \/ ChainNewHead

Fairness ==
    /\ WF_vars(WorkLoopStep)
    /\ SF_vars(WorkLoopStart)
    /\ WF_vars(RunLoopStep)
    /\ WF_vars(TaskLoopStep)
    /\ WF_vars(ExtStartSend)

SpecMining == InitMining /\ [][NextMining]_vars /\ Fairness

\* ---------------------------------------------------------------- shutdown
\* The parent context is cancelled.
CtxCancel ==
    /\ ~ctxDone
    /\ ctxDone' = TRUE
    /\ UNCHANGED <<xpc, sharedVars, newWorkCh, adjustCh, newBlockCh, flags, chainVars, workVars,
                   buildVars, sealVars, resultVars, callerVars, snapVars, libVars>>

\* workLoop, case <-w.ctx.Done() of its select: return, then the deferred
\* w.stop() and w.cancel().
WorkLoopDone ==
    /\ wpc = "select"
    /\ ctxDone
    /\ wpc' = "done"
    /\ running' = FALSE
    /\ UNCHANGED <<ctxVars, coinbase, pendingTasks, startCh, newWorkCh, adjustCh, newBlockCh,
                   flags, chainVars, interrupt, recommit, minRecommit, timestamp, timerArmed,
                   buildVars, sealVars, resultVars, callerVars, snapVars, libVars>>

\* workLoop.commit, case <-w.ctx.Done() of the send on newWorkCh
WorkLoopCommitAbort ==
    /\ wpc = "commit"
    /\ ctxDone
    /\ wpc' = "select"
    /\ newWorkCh' = NoReq
    /\ UNCHANGED <<ctxVars, sharedVars, adjustCh, newBlockCh, flags, chainVars, interrupt,
                   recommit, minRecommit, timestamp, timerArmed, buildVars, sealVars,
                   resultVars, callerVars, snapVars, libVars>>

\* runLoop, case <-w.ctx.Done()
RunLoopDone ==
    /\ rpc = "select"
    /\ ctxDone
    /\ rpc' = "done"
    /\ running' = FALSE
    /\ UNCHANGED <<ctxVars, coinbase, pendingTasks, startCh, newWorkCh, adjustCh, newBlockCh,
                   flags, chainVars, workVars, req, env, ibs, fillTxs, fillIdx, fillErr,
                   attempted, task, sealVars, resultVars, callerVars, snapVars, libVars>>

\* commit, case <-w.ctx.Done() of the send on taskCh: commitWork returns the
\* error to runLoop.
CommitSendAbort ==
    /\ rpc = "sendTask"
    /\ ctxDone
    /\ CommitWorkFail
    /\ UNCHANGED <<ctxVars, sharedVars, newWorkCh, adjustCh, newBlockCh, flags, chainVars,
                   workVars, sealVars, resultVars, callerVars, snapVars, libVars>>

\* taskLoop, case <-w.ctx.Done()
TaskLoopDone ==
    /\ tpc = "select"
    /\ ctxDone
    /\ tpc' = "done"
    /\ sealing' = {}
    /\ running' = FALSE
    /\ UNCHANGED <<ctxVars, coinbase, pendingTasks, startCh, newWorkCh, adjustCh, newBlockCh,
                   flags, chainVars, workVars, buildVars, prev, sealTask, stopCh, sealErr,
                   resultVars, callerVars, snapVars, libVars>>

\* resultLoop, case <-w.ctx.Done()
ResultLoopDone ==
    /\ xpc = "select"
    /\ ctxDone
    /\ xpc' = "done"
    /\ running' = FALSE
    /\ UNCHANGED <<ctxDone, coinbase, pendingTasks, startCh, newWorkCh, adjustCh, newBlockCh,
                   flags, chainVars, workVars, buildVars, sealVars, resultVars, callerVars,
                   snapVars, libVars>>

AllLoopsDone == wpc = "done" /\ rpc = "done" /\ tpc = "done" /\ xpc = "done"

\* The mining worker with its context cancelled at any moment, under fair
\* scheduling of the four loops; the engine delivers no block before the
\* shutdown and no new head arrives.
ShutdownStep ==
    \/ WorkLoopDone
    \/ WorkLoopCommitAbort
    \/ RunLoopDone
    \/ CommitSendAbort
    \/ TaskLoopDone
    \/ ResultLoopDone

NextShutdown ==
    \/ WorkLoopStart
    \/ WorkLoopTimer
    \/ WorkLoopAdjust
    \/ RunLoopStep
    \/ CommitIdle
    \/ TaskLoopStep
    \/ ExtStartSend
    \/ CtxCancel
    \/ ShutdownStep

FairShutdown ==
    /\ WF_vars(WorkLoopDone \/ WorkLoopCommitAbort)
    /\ WF_vars(RunLoopDone \/ CommitSendAbort \/ RunLoopStep \/ CommitIdle)
    /\ WF_vars(TaskLoopDone \/ TaskLoopStep)
    /\ WF_vars(ResultLoopDone)
    /\ WF_vars(ExtStartSend)

SpecShutdown == InitMining /\ [][NextShutdown]_vars /\ FairShutdown

\* ---------------------------------------------------------------- snapshot
\* updateSnapshot and pendingBlockAndReceipts statement by statement, under
\* w.snapshotMu: 0 is free, -1 write-locked, n > 0 read-locked by n readers.
CanRLock_Unlocked(mu) == TRUE

CanRLock(mu) == mu >= 0

\* The environments updateSnapshot is called with: the first k candidates of
\* a list accepted.
SnapEnvs ==
    {[EmptyEnv EXCEPT !.header.number = 1, !.tcount = k,
                      !.txs = [i \in 1..k |-> i],
                      !.receipts = [i \in 1..k |-> [tx |-> i, gasUsed |-> TxGas]]] :
        k \in 0..MaxTxs}

UpdateLock ==
    /\ upc = "idle"
    /\ snapshotMu = 0
    /\ snapshotMu' = -1
    /\ uenv' \in SnapEnvs
    /\ upc' = "block"
    /\ UNCHANGED <<workerVars, snapshotBlock, snapshotReceipts, rdr, libVars>>

UpdateBlock ==
    /\ upc = "block"
    /\ snapshotBlock' = NewBlockFromReceipt(uenv)
    /\ upc' = "receipts"
    /\ UNCHANGED <<workerVars, snapshotReceipts, snapshotMu, uenv, rdr, libVars>>

UpdateReceipts ==
    /\ upc = "receipts"
    /\ snapshotReceipts' = copyReceipts(uenv.receipts)
    /\ upc' = "unlock"
    /\ UNCHANGED <<workerVars, snapshotBlock, snapshotMu, uenv, rdr, libVars>>

UpdateUnlock ==
    /\ upc = "unlock"
    /\ snapshotMu' = 0
    /\ upc' = "idle"
    /\ UNCHANGED <<workerVars, snapshotBlock, snapshotReceipts, uenv, rdr, libVars>>

ReaderRLock(r) ==
    /\ rdr[r].pc \in {"idle", "done"}
    /\ CanRLock(snapshotMu)
    /\ snapshotMu' = snapshotMu + 1
    /\ rdr' = [rdr EXCEPT ![r] = [IdleReader EXCEPT !.pc = "block"]]
    /\ UNCHANGED <<workerVars, snapshotBlock, snapshotReceipts, upc, uenv, libVars>>

ReaderBlock(r) ==
    /\ rdr[r].pc = "block"
    /\ rdr' = [rdr EXCEPT ![r].block = snapshotBlock, ![r].pc = "receipts"]
    /\ UNCHANGED <<workerVars, snapshotBlock, snapshotReceipts, snapshotMu, upc, uenv, libVars>>

ReaderReceipts(r) ==
    /\ rdr[r].pc = "receipts"
    /\ rdr' = [rdr EXCEPT ![r].receipts = snapshotReceipts, ![r].pc = "unlock"]
    /\ UNCHANGED <<workerVars, snapshotBlock, snapshotReceipts, snapshotMu, upc, uenv, libVars>>

ReaderRUnlock(r) ==
    /\ rdr[r].pc = "unlock"
    /\ snapshotMu' = snapshotMu - 1
    /\ rdr' = [rdr EXCEPT ![r].pc = "done"]
    /\ UNCHANGED <<workerVars, snapshotBlock, snapshotReceipts, upc, uenv, libVars>>

InitSnapshot ==
    /\ InitWorker(0)
    /\ head = 0
    /\ txsPool = <<>>
    /\ chainGasLimit = TxGas

NextSnapshot ==
    \/ UpdateLock
    \/ UpdateBlock
    \/ UpdateReceipts
    \/ UpdateUnlock
    \/ \E r \in Readers : ReaderRLock(r)
    \/ \E r \in Readers : ReaderBlock(r)
    \/ \E r \in Readers : ReaderReceipts(r)
    \/ \E r \in Readers : ReaderRUnlock(r)

SpecSnapshot == InitSnapshot /\ [][NextSnapshot]_vars

\* -------------------------------------------------------------- AddrLocker
\* sync.Mutex.Lock succeeds on a free mutex: 0 is free, c is held by c.
CanLock_Always(mu) == TRUE

CanLock(mu) == mu = 0

NotAddrLocker == <<workerVars, snapVars, sigVars, handlerVars, guardVars, copyVars, topicVars,
                   dbiVars>>

\* LockAddr(a) is called: lock(a) first.
LockAddrCall(c) ==
    /\ acl[c].pc = "idle"
    /\ \E a \in Addresses :
          acl' = [acl EXCEPT ![c] = [IdleCaller EXCEPT !.pc = "lock", !.op = "lock", !.addr = a]]
    /\ UNCHANGED <<NotAddrLocker, almu, locks, mutexes>>

\* UnlockAddr(a) is called by the holder: lock(a) first.
UnlockAddrCall(c) ==
    /\ acl[c].pc = "holding"
    /\ acl' = [acl EXCEPT ![c].pc = "lock", ![c].op = "unlock", ![c].m = 0]
    /\ UNCHANGED <<NotAddrLocker, almu, locks, mutexes>>

\* lock: l.mu.Lock()
LockerMuLock(c) ==
    /\ acl[c].pc = "lock"
    /\ CanLock(almu)
    /\ almu' = c
    /\ acl' = [acl EXCEPT ![c].pc = "check"]
    /\ UNCHANGED <<NotAddrLocker, locks, mutexes>>

\* lock: if _, ok := l.locks[address]; !ok
LockerCheck(c) ==
    /\ acl[c].pc = "check"
    /\ acl' = [acl EXCEPT ![c].pc = IF locks[acl[c].addr] = 0 THEN "create" ELSE "return"]
    /\ UNCHANGED <<NotAddrLocker, almu, locks, mutexes>>

\* lock: l.locks[address] = new(sync.Mutex)
LockerCreate(c) ==
    /\ acl[c].pc = "create"
    /\ mutexes' = Append(mutexes, 0)
    /\ locks' = [locks EXCEPT ![acl[c].addr] = Len(mutexes) + 1]
    /\ acl' = [acl EXCEPT ![c].pc = "return"]
    /\ UNCHANGED <<NotAddrLocker, almu>>

\* lock: return l.locks[address], with the deferred l.mu.Unlock()
LockerReturn(c) ==
    /\ acl[c].pc = "return"
    /\ almu' = 0
    /\ acl' = [acl EXCEPT ![c].m = locks[acl[c].addr],
                          ![c].pc = IF acl[c].op = "lock" THEN "mutexLock" ELSE "mutexUnlock"]
    /\ UNCHANGED <<NotAddrLocker, locks, mutexes>>

\* LockAddr: .Lock() on the mutex lock returned
MutexLock(c) ==
    /\ acl[c].pc = "mutexLock"
    /\ CanLock(mutexes[acl[c].m])
    /\ mutexes' = [mutexes EXCEPT ![acl[c].m] = c]
    /\ acl' = [acl EXCEPT ![c].pc = "holding", ![c].held = TRUE]
    /\ UNCHANGED <<NotAddrLocker, almu, locks>>

\* UnlockAddr: .Unlock() on the mutex lock returned
MutexUnlock(c) ==
    /\ acl[c].pc = "mutexUnlock"
    /\ mutexes' = [mutexes EXCEPT ![acl[c].m] = 0]
    /\ acl' = [acl EXCEPT ![c] = IdleCaller]
    /\ UNCHANGED <<NotAddrLocker, almu, locks>>

InitAddr ==
    /\ InitWorker(0)
    /\ head = 0
    /\ txsPool = <<>>
    /\ chainGasLimit = TxGas

NextAddr ==
    \/ \E c \in Callers : LockAddrCall(c)
    \/ \E c \in Callers : UnlockAddrCall(c)
    \/ \E c \in Callers : LockerMuLock(c)
    \/ \E c \in Callers : LockerCheck(c)
    \/ \E c \in Callers : LockerCreate(c)
    \/ \E c \in Callers : LockerReturn(c)
    \/ \E c \in Callers : MutexLock(c)
    \/ \E c \in Callers : MutexUnlock(c)

SpecAddr == InitAddr /\ [][NextAddr]_vars

\* ----------------------------------------------------- the guarded fields
\* w.coinbase is a 20-byte array, read and written a word at a time; two
\* words stand for it.  sync.RWMutex: Lock needs the lock free, RLock needs
\* no writer.
CanLockW(mu) == mu.writer = "none" /\ mu.readers = {}
CanRLockW(mu) == mu.writer = "none"

NotGuards == <<workerVars, snapVars, addrVars, sigVars, handlerVars, copyVars, topicVars,
               dbiVars>>

\* setCoinbase(addr) is called
SetCoinbaseCall ==
    /\ sc.pc = "idle"
    /\ \E a \in Addresses : sc' = [pc |-> "lock", addr |-> a]
    /\ UNCHANGED <<NotGuards, wmu, cbWords, cw, lk, rg>>

\* setCoinbase: w.mu.Lock()
SetCoinbaseLock ==
    /\ sc.pc = "lock"
    /\ CanLockW(wmu)
    /\ wmu' = [wmu EXCEPT !.writer = "setCoinbase"]
    /\ sc' = [sc EXCEPT !.pc = "write1"]
    /\ UNCHANGED <<NotGuards, cbWords, cw, lk, rg>>

\* setCoinbase: w.coinbase = addr, one word after the other
SetCoinbaseWrite ==
    /\ sc.pc \in {"write1", "write2"}
    /\ cbWords' = IF sc.pc = "write1" THEN [cbWords EXCEPT ![1] = sc.addr]
                  ELSE [cbWords EXCEPT ![2] = sc.addr]
    /\ sc' = [sc EXCEPT !.pc = IF sc.pc = "write1" THEN "write2" ELSE "unlock"]
    /\ UNCHANGED <<NotGuards, wmu, cw, lk, rg>>

\* setCoinbase: the deferred w.mu.Unlock()
SetCoinbaseUnlock ==
    /\ sc.pc = "unlock"
    /\ wmu' = [wmu EXCEPT !.writer = "none"]
    /\ sc' = [sc EXCEPT !.pc = "idle"]
    /\ UNCHANGED <<NotGuards, cbWords, cw, lk, rg>>

\* commitWork: coinbase: w.coinbase in the argument of prepareWork, one word
\* after the other; no lock is taken before it.
CommitWorkReadCoinbase ==
    /\ cw.pc \in {"idle", "read2"}
    /\ cw' = IF cw.pc = "idle" THEN [pc |-> "read2", got |-> <<cbWords[1], cw.got[2]>>]
             ELSE [pc |-> "prepare", got |-> <<cw.got[1], cbWords[2]>>]
    /\ UNCHANGED <<NotGuards, wmu, cbWords, sc, lk, rg>>

\* commitWork goes on with the address it read; the next request comes.
CommitWorkNext ==
    /\ cw.pc = "prepare"
    /\ cw' = [cw EXCEPT !.pc = "idle"]
    /\ UNCHANGED <<NotGuards, wmu, cbWords, sc, lk, rg>>

\* resultLoop: w.mu.RLock(); task, exist := w.pendingTasks[sealhash];
\* w.mu.RUnlock()
ResultLookup ==
    /\ \/ lk = "idle" /\ CanRLockW(wmu)
          /\ wmu' = [wmu EXCEPT !.readers = @ \cup {"resultLoop"}] /\ lk' = "read"
       \/ lk = "read" /\ lk' = "unlock" /\ UNCHANGED wmu
       \/ lk = "unlock"
          /\ wmu' = [wmu EXCEPT !.readers = @ \ {"resultLoop"}] /\ lk' = "idle"
    /\ UNCHANGED <<NotGuards, cbWords, sc, cw, rg>>

\* taskLoop: w.mu.Lock(); w.pendingTasks[sealHash] = task; w.mu.Unlock()
TaskRegister ==
    /\ \/ rg = "idle" /\ CanLockW(wmu)
          /\ wmu' = [wmu EXCEPT !.writer = "taskLoop"] /\ rg' = "write"
       \/ rg = "write" /\ rg' = "unlock" /\ UNCHANGED wmu
       \/ rg = "unlock"
          /\ wmu' = [wmu EXCEPT !.writer = "none"] /\ rg' = "idle"
    /\ UNCHANGED <<NotGuards, cbWords, sc, cw, lk>>

NextGuards ==
    \/ SetCoinbaseCall
    \/ SetCoinbaseLock
    \/ SetCoinbaseWrite
    \/ SetCoinbaseUnlock
    \/ CommitWorkReadCoinbase
    \/ CommitWorkNext
    \/ ResultLookup
    \/ TaskRegister

SpecGuards == InitAddr /\ [][NextGuards]_vars

\* -------------------------------------------------------- environment.copy
\* The environment with its pointers: ancestors, family, gasPool and header
\* refer to objects in mem (0 is nil); txs and receipts are slices, a
\* backing array in mem with a length and a capacity.
NilSlice == [arr |-> 0, len |-> 0, cap |-> 0]

\* append(sl, x): in place while the capacity lasts, else into a new array
\* of twice the capacity.
GoAppend(m, sl, x) ==
    IF sl.len < sl.cap
    THEN [mem |-> [m EXCEPT ![sl.arr] = [@ EXCEPT ![sl.len + 1] = x]],
          slice |-> [sl EXCEPT !.len = @ + 1]]
    ELSE LET newCap == IF sl.cap = 0 THEN 1 ELSE 2 * sl.cap
             arr == [i \in 1..newCap |->
                        IF i <= sl.len THEN m[sl.arr][i] ELSE IF i = sl.len + 1 THEN x ELSE 0]
         IN  [mem |-> Append(m, arr),
              slice |-> [arr |-> Len(m) + 1, len |-> sl.len + 1, cap |-> newCap]]

\* mapset.Set.Clone and block.CopyHeader: the value a new object gets, the
\* set with the same elements and the header with the same fields.
Clone(m, ref) == m[ref]
CopyHeader(m, ref) == m[ref]

\* copy() with cpy.gasPool = env.gasPool
envCopy_SharedGasPool(m, e) ==
    LET m1 == Append(m, Clone(m, e.ancestors))
        m2 == Append(m1, Clone(m, e.family))
        m3 == Append(m2, CopyHeader(m, e.header))
        m5 == Append(m3, [i \in 1..e.txs.len |-> m[e.txs.arr][i]])
    IN  [mem |-> m5,
         env |-> [ancestors |-> Len(m) + 1, family |-> Len(m) + 2, tcount |-> e.tcount,
                  coinbase |-> e.coinbase, header |-> Len(m) + 3, receipts |-> e.receipts,
                  gasPool |-> e.gasPool,
                  txs |-> [arr |-> Len(m5), len |-> e.txs.len, cap |-> e.txs.len]]]

\* env.copy(): Clone of the two sets, block.CopyHeader, the receipts slice as
\* it is, a new GasPool with the value of the old one if there is one, a
\* new txs array of len(env.txs) with the elements copied.
envCopy(m, e) ==
    LET m1 == Append(m, Clone(m, e.ancestors))
        m2 == Append(m1, Clone(m, e.family))
        m3 == Append(m2, CopyHeader(m, e.header))
        m4 == IF e.gasPool # 0 THEN Append(m3, m[e.gasPool]) ELSE m3
        m5 == Append(m4, [i \in 1..e.txs.len |-> m[e.txs.arr][i]])
    IN  [mem |-> m5,
         env |-> [ancestors |-> Len(m) + 1, family |-> Len(m) + 2, tcount |-> e.tcount,
                  coinbase |-> e.coinbase, header |-> Len(m) + 3, receipts |-> e.receipts,
                  gasPool |-> IF e.gasPool # 0 THEN Len(m4) ELSE 0,
                  txs |-> [arr |-> Len(m5), len |-> e.txs.len, cap |-> e.txs.len]]]

\* What an environment holds, its pointers followed.
EnvView(m, e) ==
    [txs |-> [i \in 1..e.txs.len |-> m[e.txs.arr][i]],
     tcount |-> e.tcount,
     gas |-> IF e.gasPool = 0 THEN -1 ELSE m[e.gasPool],
     header |-> m[e.header],
     ancestors |-> m[e.ancestors],
     family |-> m[e.family]]

NotCopy == <<workerVars, snapVars, addrVars, sigVars, handlerVars, guardVars, topicVars,
             dbiVars>>

\* An environment as a build leaves it: k transactions in a slice with or
\* without spare capacity, a gas budget or none, ancestors.
EnvMake ==
    /\ envs = <<>>
    /\ \E k \in 0..1, spare \in 0..1, gas \in {-1, 0, TxGas}, anc \in {{}, {1}} :
        /\ mem' = <<anc, anc, [number |-> 1, gasUsed |-> k * TxGas]>>
                  \o (IF gas >= 0 THEN <<gas>> ELSE <<0>>)
                  \o <<[i \in 1..(k + spare) |-> IF i <= k THEN i ELSE 0]>>
        /\ envs' = <<[ancestors |-> 1, family |-> 2, tcount |-> k, coinbase |-> 1,
                      header |-> 3, receipts |-> NilSlice,
                      gasPool |-> IF gas >= 0 THEN 4 ELSE 0,
                      txs |-> [arr |-> 5, len |-> k, cap |-> k + spare]]>>
    /\ UNCHANGED <<NotCopy, ops>>

\* commit: env := env.copy()
EnvCopy ==
    /\ Len(envs) = 1
    /\ LET c == envCopy(mem, envs[1])
       IN  /\ mem' = c.mem
           /\ envs' = Append(envs, c.env)
    /\ UNCHANGED <<NotCopy, ops>>

\* env.txs = append(env.txs, tx); env.tcount++ on either environment
EnvAppendTx ==
    /\ Len(envs) = 2
    /\ ops < MaxEnvOps
    /\ \E s \in 1..2 :
        LET a == GoAppend(mem, envs[s].txs, 7 + ops)
        IN  /\ mem' = a.mem
            /\ envs' = [envs EXCEPT ![s].txs = a.slice, ![s].tcount = @ + 1]
    /\ ops' = ops + 1
    /\ UNCHANGED NotCopy

\* env.gasPool.SubGas(1) on either environment
EnvSubGas ==
    /\ Len(envs) = 2
    /\ ops < MaxEnvOps
    /\ \E s \in 1..2 :
        /\ envs[s].gasPool # 0
        /\ mem[envs[s].gasPool] > 0
        /\ mem' = [mem EXCEPT ![envs[s].gasPool] = @ - 1]
    /\ ops' = ops + 1
    /\ UNCHANGED <<NotCopy, envs>>

\* env.header.GasUsed changed on either environment
EnvSetHeader ==
    /\ Len(envs) = 2
    /\ ops < MaxEnvOps
    /\ \E s \in 1..2 : mem' = [mem EXCEPT ![envs[s].header].gasUsed = @ + 1]
    /\ ops' = ops + 1
    /\ UNCHANGED <<NotCopy, envs>>

\* env.ancestors.Add / env.family.Add on either environment
EnvAddToSet ==
    /\ Len(envs) = 2
    /\ ops < MaxEnvOps
    /\ \E s \in 1..2, f \in {"ancestors", "family"} :
        mem' = [mem EXCEPT ![envs[s][f]] = @ \cup {2 + ops}]
    /\ ops' = ops + 1
    /\ UNCHANGED <<NotCopy, envs>>

NextCopy ==
    \/ EnvMake
    \/ EnvCopy
    \/ EnvAppendTx
    \/ EnvSubGas
    \/ EnvSetHeader
    \/ EnvAddToSet

SpecCopy == InitAddr /\ [][NextCopy]_vars

\* -------------------------------------------------------------- signalToErr
\* The int32 values signalToErr is called with: those around the constants
\* and the two ends of the type.
Signals == (-MaxSignal..MaxSignal) \cup {-2147483647 - 1, 2147483647}

NotSignal == <<workerVars, snapVars, addrVars, handlerVars, guardVars, copyVars, topicVars,
               dbiVars>>

SignalCall ==
    /\ sigRet # "pending"
    /\ sigArg' \in Signals
    /\ sigRet' = "pending"
    /\ UNCHANGED NotSignal

SignalReturn ==
    /\ sigRet = "pending"
    /\ sigRet' = signalToErr(sigArg)
    /\ UNCHANGED <<NotSignal, sigArg>>

NextSignal == SignalCall \/ SignalReturn

SpecSignal == InitAddr /\ [][NextSignal]_vars

\* The interval controller under any feedback: the configured interval and
\* the messages on resubmitAdjustCh are drawn from these sets.
ConfRecommits == {0, 1000, 3000, 12000, 13000}
Ratios == {[num |-> 0, den |-> 1], [num |-> 1, den |-> 10], [num |-> 1, den |-> 2],
           [num |-> 1, den |-> 1], [num |-> 2, den |-> 1]}

InjectAdjust ==
    /\ adjustCh = <<>>
    /\ \E inc \in BOOLEAN, ratio \in Ratios : adjustCh' = <<[inc |-> inc, ratio |-> ratio]>>
    /\ UNCHANGED <<sharedVars, newWorkCh, newBlockCh, flags, chainVars, workVars,
                   buildVars, sealVars, resultVars, callerVars, snapVars, ctxVars, libVars>>

InitRecommit ==
    /\ \E conf \in ConfRecommits : InitWorker(conf)
    /\ head = 0
    /\ txsPool = <<>>
    /\ chainGasLimit = TxGas

NextRecommit == InjectAdjust \/ WorkLoopAdjust

SpecRecommit == InitRecommit /\ [][NextRecommit]_vars

\* ------------------------------------------------- subscription topic handler
\* internal/sync/subscription_topic_handler.go.  Every method holds the
\* handler's lock from its first to its last statement, so a call is one step.
\* The topics: two with the same gossip digest, one with another digest and
\* one from which no digest can be extracted.
Topics == {"/n42/aa/block", "/n42/aa/tx", "/n42/bb/block", "malformed"}
Digests == {"aa", "bb"}

\* p2p.ExtractGossipDigest(topic): the fork digest in the topic, or an error.
ExtractGossipDigest(topic) ==
    CASE topic \in {"/n42/aa/block", "/n42/aa/tx"} -> [err |-> FALSE, digest |-> "aa"]
      [] topic = "/n42/bb/block" -> [err |-> FALSE, digest |-> "bb"]
      [] OTHER -> [err |-> TRUE, digest |-> "none"]

\* m[k] of a Go map of ints: the zero value for a missing key.
MapGet(mp, k) == IF k \in DOMAIN mp THEN mp[k] ELSE 0
\* m[k] = v
MapSet(mp, k, v) == [x \in DOMAIN mp \cup {k} |-> IF x = k THEN v ELSE mp[x]]
\* delete(m, k)
MapDelete(mp, k) == [x \in DOMAIN mp \ {k} |-> mp[x]]

\* addTopic(topic, sub): what it leaves in digestMap.
addTopic(dm, topic) ==
    LET r == ExtractGossipDigest(topic)
    IN  IF r.err THEN dm
        ELSE MapSet(dm, r.digest, MapGet(dm, r.digest) + 1)

\* removeTopic(topic): what it leaves in digestMap.
removeTopic(dm, topic) ==
    LET r == ExtractGossipDigest(topic)
        ok == r.digest \in DOMAIN dm
        currAmt == MapGet(dm, r.digest)
    IN  IF r.err THEN dm
        ELSE IF ~ok \/ currAmt <= 0 THEN MapDelete(dm, r.digest)
        ELSE IF currAmt - 1 = 0 THEN MapDelete(dm, r.digest)
        ELSE MapSet(dm, r.digest, currAmt - 1)

\* digestExists(digest)
digestExists(dm, digest) == digest \in DOMAIN dm /\ dm[digest] > 0

NotTopics == <<workerVars, snapVars, addrVars, sigVars, handlerVars, guardVars, copyVars,
               dbiVars>>

AddTopicCall ==
    /\ topicOps < MaxTopicOps
    /\ topicOps' = topicOps + 1
    /\ \E topic \in Topics :
        /\ subTopics' = subTopics \cup {topic}
        /\ digestMap' = addTopic(digestMap, topic)
    /\ UNCHANGED NotTopics

RemoveTopicCall ==
    /\ topicOps < MaxTopicOps
    /\ topicOps' = topicOps + 1
    /\ \E topic \in Topics :
        /\ subTopics' = subTopics \ {topic}
        /\ digestMap' = removeTopic(digestMap, topic)
    /\ UNCHANGED NotTopics

NextTopics == AddTopicCall \/ RemoveTopicCall

SpecTopics == InitAddr /\ [][NextTopics]_vars

\* ----------------------------------------------------------------- lmdb.Lmdb
\* internal/amcdb/lmdb/lmdb.go: Open, OpenReader and OpenWriter all call
\* openDBI, modelled statement by statement under m.mu.  A DBI handle is the
\* index of its creation; dbis[h] is the database name handle h was made for.
DBNames == {"headers", "bodies"}

\* m.mu.RLock() and m.mu.Lock() can be taken.
CanRLockDB(mu) == mu.writer = 0
CanLockDB(mu) == mu.writer = 0 /\ mu.readers = {}

NotLmdb == <<workerVars, snapVars, addrVars, sigVars, handlerVars, guardVars, copyVars,
             topicVars>>

\* Open(dbName), OpenReader(dbName) or OpenWriter(dbName) is called.
OpenCall(c) ==
    /\ ocl[c].pc = "idle"
    /\ ocl[c].calls < MaxOpens
    /\ \E name \in DBNames :
        ocl' = [ocl EXCEPT ![c].pc = "rlock", ![c].name = name, ![c].calls = @ + 1]
    /\ UNCHANGED <<dbmu, mDBI, dbis, NotLmdb>>

\* m.mu.RLock()
OpenRLock(c) ==
    /\ ocl[c].pc = "rlock"
    /\ CanRLockDB(dbmu)
    /\ dbmu' = [dbmu EXCEPT !.readers = @ \cup {c}]
    /\ ocl' = [ocl EXCEPT ![c].pc = "check"]
    /\ UNCHANGED <<mDBI, dbis, NotLmdb>>

\* if dbi, ok := m.mDBI[dbName]; ok { RUnlock; return dbi }, else RUnlock
OpenCheck(c) ==
    /\ ocl[c].pc = "check"
    /\ dbmu' = [dbmu EXCEPT !.readers = @ \ {c}]
    /\ IF ocl[c].name \in DOMAIN mDBI
       THEN ocl' = [ocl EXCEPT ![c].pc = "idle", ![c].got = @ \cup {mDBI[ocl[c].name]}]
       ELSE ocl' = [ocl EXCEPT ![c].pc = "lock"]
    /\ UNCHANGED <<mDBI, dbis, NotLmdb>>

\* m.mu.Lock()
OpenLock(c) ==
    /\ ocl[c].pc = "lock"
    /\ CanLockDB(dbmu)
    /\ dbmu' = [dbmu EXCEPT !.writer = c]
    /\ ocl' = [ocl EXCEPT ![c].pc = "create"]
    /\ UNCHANGED <<mDBI, dbis, NotLmdb>>

\* newDBI, which may fail; m.mDBI[dbName] = dbi; the deferred Unlock; return
OpenCreate(c) ==
    /\ ocl[c].pc = "create"
    /\ dbmu' = [dbmu EXCEPT !.writer = 0]
    /\ \E ok \in BOOLEAN :
        IF ok
        THEN LET dbi == Len(dbis) + 1
             IN  /\ dbis' = Append(dbis, ocl[c].name)
                 /\ mDBI' = MapSet(mDBI, ocl[c].name, dbi)
                 /\ ocl' = [ocl EXCEPT ![c].pc = "idle", ![c].got = @ \cup {dbi}]
        ELSE /\ ocl' = [ocl EXCEPT ![c].pc = "idle"]
             /\ UNCHANGED <<mDBI, dbis>>
    /\ UNCHANGED NotLmdb

NextLmdb ==
    \E c \in Openers :
        \/ OpenCall(c)
        \/ OpenRLock(c)
        \/ OpenCheck(c)
        \/ OpenLock(c)
        \/ OpenCreate(c)

SpecLmdb == InitAddr /\ [][NextLmdb]_vars

\* ------------------------------------------------------ build and chain store
\* The mining worker with one transaction in the pool, the engine delivering
\* sealed blocks and the result handler writing them: builds are interrupted
\* by new heads, fail in Prepare, in the pool read or in FinalizeAndAssemble,
\* while the chain store fills.
InitStore ==
    /\ running = TRUE
    /\ coinbase = 1
    /\ spc = "idle"
    /\ InitLoops(0)
    /\ head = 0
    /\ txsPool = <<[gas |-> TxGas, used |-> TxGas, kind |-> "ok"]>>
    /\ chainGasLimit = TxGas

NextStore ==
    \/ WorkLoopStep
    \/ RunLoopStep
    \/ TaskLoopStep
    \/ ResultLoopRecv
    \/ ChainNewHead

SpecStore == InitStore /\ [][NextStore]_vars

\* ------------------------------------------------------- interrupted builds
\* The worker with a coinbase, two transactions in the pool and room for
\* both in a block, either not started yet or mining; stop() may be called
\* at any moment.  The engine keeps the sealed blocks to itself.
InitBuild ==
    /\ running \in BOOLEAN
    /\ coinbase = 1
    /\ spc = "idle"
    /\ InitLoops(0)
    /\ head = 0
    /\ txsPool = <<[gas |-> TxGas, used |-> TxGas, kind |-> "ok"],
                   [gas |-> TxGas, used |-> TxGas, kind |-> "ok"]>>
    /\ chainGasLimit = 2 * TxGas

NextBuild ==
    \/ WorkLoopStep
    \/ RunLoopStep
    \/ CommitIdle
    \/ TaskLoopStep
    \/ ExtStop
    \/ ChainNewHead

SpecBuild == InitBuild /\ [][NextBuild]_vars

\* ==================================================================== claims
Building == rpc \in {"fill", "dispatch", "commit", "sendTask"}

\* The step is one candidate attempted by fillTransactions.
Attempt == Len(attempted') = Len(attempted) + 1
LastAttempt == attempted'[Len(attempted')]

\* C1: in any build cycle the gas used by the accepted transactions never
\* exceeds the draft header's gas limit; the budget starts at the limit and is
\* decreased by the accepted transactions only.
C1_GasWithinLimit ==
    Building =>
        /\ SumGasUsed(env.receipts) <= env.header.gasLimit
        /\ env.gasPool = env.header.gasLimit - SumGasUsed(env.receipts)

C1_Witness ==
    /\ rpc = "dispatch"
    /\ env.tcount = 2
    /\ \E k \in 1..Len(attempted) : attempted[k].err = "ErrGasLimitReached"
    /\ SumGasUsed(env.receipts) = env.header.gasLimit

\* C2: a failed candidate leaves the gas budget, the state view, the accepted
\* transactions, the receipts and the count as they were before the attempt.
C2_ExactRollback ==
    [][(Attempt /\ LastAttempt.err # "nil") =>
          /\ env'.gasPool = env.gasPool
          /\ ibs' = ibs
          /\ env'.txs = env.txs
          /\ env'.receipts = env.receipts
          /\ env'.tcount = env.tcount]_vars

C2_Witness ==
    /\ env.tcount >= 1
    /\ \E k \in 1..Len(attempted) : attempted[k].err = "ErrOther"
    /\ \E k \in 1..Len(attempted) : attempted[k].err = "ErrGasLimitReached"

\* C3: the accepted transactions, the receipts and the count agree at every
\* transaction boundary, also in the context an interruption leaves behind.
C3_ListsAgree ==
    /\ Len(env.txs) = env.tcount
    /\ Len(env.receipts) = env.tcount
    /\ \A k \in 1..Len(env.receipts) : env.receipts[k].tx = env.txs[k]

C3_Witness ==
    /\ rpc = "dispatch"
    /\ fillErr = "errBlockInterruptedByNewHead"
    /\ env.tcount >= 2
    /\ fillIdx <= Len(fillTxs)

RECURSIVE Succeeded(_)
Succeeded(att) ==
    IF att = <<>> THEN <<>>
    ELSE (IF att[1].err = "nil" THEN <<att[1].tx>> ELSE <<>>) \o Succeeded(Tail(att))

\* C4: the accepted transactions are the attempted candidates that applied,
\* in pool order; each candidate is attempted at most once, and a failure does
\* not end the cycle: only the end of the list, an exhausted budget or an
\* interruption does.
C4_AcceptedAreSucceeded ==
    Building =>
        /\ env.txs = Succeeded(attempted)
        /\ \A k \in 1..Len(attempted) : attempted[k].tx = k
        /\ fillIdx = Len(attempted) + 1
        /\ (rpc # "fill" /\ fillErr = "nil" /\ Len(attempted) < Len(fillTxs))
              => env.gasPool < TxGas

C4_Witness ==
    /\ rpc = "dispatch"
    /\ Len(fillTxs) = 3
    /\ Len(attempted) = 3
    /\ attempted[2].err = "ErrNonceTooLow"
    /\ env.txs = <<1, 3>>

RECURSIVE UsedByFirst(_, _)
UsedByFirst(txs, k) == IF k = 0 THEN 0 ELSE txs[k].used + UsedByFirst(txs, k - 1)

\* The limit admits the first k candidates and none of the later ones.
AdmitsOnlyFirst(txs, limit, k) ==
    /\ \A j \in 1..k : txs[j].gas <= limit - UsedByFirst(txs, j - 1)
    /\ \A j \in (k + 1)..Len(txs) : txs[j].gas > limit - UsedByFirst(txs, k)

\* C5: when every candidate would apply given enough gas and the limit admits
\* only the first k, the block holds exactly the first k in order and the
\* budget is left at the limit minus the gas they used.
C5_FirstKFit ==
    \A k \in 0..Len(fillTxs) :
        (/\ rpc = "dispatch"
         /\ fillErr = "nil"
         /\ \A j \in 1..Len(fillTxs) : fillTxs[j].kind = "ok"
         /\ AdmitsOnlyFirst(fillTxs, env.header.gasLimit, k))
        => /\ env.txs = [j \in 1..k |-> j]
           /\ env.gasPool = env.header.gasLimit - UsedByFirst(fillTxs, k)

C5_Witness ==
    /\ rpc = "dispatch"
    /\ fillErr = "nil"
    /\ Len(fillTxs) = 3
    /\ \A j \in 1..3 : fillTxs[j].kind = "ok"
    /\ AdmitsOnlyFirst(fillTxs, env.header.gasLimit, 2)
    /\ env.gasPool = env.header.gasLimit - 2 * TxGas

\* The classification each signal stands for.
Classification(signal) ==
    CASE signal = 1 -> "errBlockInterruptedByNewHead"
      [] signal = 2 -> "errBlockInterruptedByRecommit"
      [] signal = 3 -> "errBlockInterruptedByTimeout"

BuildState == <<rpc, env, ibs, fillIdx, fillErr, attempted>>

\* C6: with candidates left and the flag raised, the next thing
\* fillTransactions does is return the classification of the signal, with the
\* accepted transactions kept and no candidate applied.
C6_InterruptStops ==
    [][(/\ rpc = "fill"
        /\ fillIdx <= Len(fillTxs)
        /\ flags[req.interrupt] # 0
        /\ BuildState' # BuildState)
       => /\ rpc' = "dispatch"
          /\ fillErr' = Classification(flags[req.interrupt])
          /\ env' = env
          /\ ibs' = ibs
          /\ attempted' = attempted]_vars

C6_Witness ==
    /\ rpc = "dispatch"
    /\ fillErr = "errBlockInterruptedByNewHead"
    /\ env.tcount = 1
    /\ Len(attempted) = 1
    /\ Len(fillTxs) = 3

\* -------------------------------------------------- feedback and interval
DispatchOfNewHead ==
    /\ rpc = "dispatch"
    /\ rpc' = "commit"
    /\ fillErr = "errBlockInterruptedByNewHead"

C8_WithinBounds ==
    /\ minRecommit <= recommit
    /\ recommit <= maxRecommitInterval

\* ------------------------------------------------------ interruption flags
\* A step in which workLoop.commit issues a build request.
IssueStep == newWorkCh = NoReq /\ newWorkCh' # NoReq

\* C22: every request issued carries a new flag that reads "none", the flag
\* of the request before it holds the signal by then, and a flag that gives
\* its place to the new one was signalled; so the only issued flag that can
\* read "none" is the latest one.
C22_OneLiveFlag ==
    /\ [](\A f \in DOMAIN flags : flags[f] = commitInterruptNone => f = interrupt)
    /\ [][IssueStep =>
            /\ newWorkCh'.interrupt = interrupt'
            /\ flags'[interrupt'] = commitInterruptNone
            /\ (interrupt # 0 /\ interrupt' # interrupt)
                  => flags'[interrupt] = commitInterruptNewHead
            /\ interrupt' \in DOMAIN flags => flags[interrupt'] # commitInterruptNone
                                              \/ interrupt' = interrupt]_vars

C22_Witness ==
    /\ DOMAIN flags = {1, 2}
    /\ flags[interrupt] = commitInterruptNone
    /\ \E f \in DOMAIN flags : f # interrupt /\ flags[f] = commitInterruptNewHead
    /\ wpc = "commit"

\* ------------------------------------------------------------ rebuild timer
\* The step in which the trigger loop takes the tick of the rebuild timer.
TimerStep == wpc = "select" /\ timerArmed /\ ~timerArmed'

\* C27: on the tick of the rebuild timer the trigger loop issues no build
\* request, changes no interruption flag and leaves the recommit interval
\* and the pending task table as they are.
C27_TimerNoOp ==
    [][TimerStep
       => UNCHANGED <<newWorkCh, flags, interrupt, wpc, recommit, minRecommit, pendingTasks>>]_vars

\* The timer armed by a request has fired while the worker is mining and
\* the build of that request is under way.
C27_Witness ==
    /\ running
    /\ interrupt # 0
    /\ wpc = "select"
    /\ ~timerArmed
    /\ rpc \notin {"select", "done"}
    /\ flags[interrupt] = commitInterruptNone

\* -------------------------------------------------------------- signalToErr
InterruptErrors ==
    {"errBlockInterruptedByNewHead", "errBlockInterruptedByRecommit",
     "errBlockInterruptedByTimeout"}

\* C28: signalToErr gives the new-head, resubmit and timeout signals three
\* different classifications, each its own, and panics on every other
\* value instead of returning.
C28_SignalToErr ==
    (sigRet \notin {"none", "pending"})
    => /\ sigArg = commitInterruptNewHead => sigRet = "errBlockInterruptedByNewHead"
       /\ sigArg = commitInterruptResubmit => sigRet = "errBlockInterruptedByRecommit"
       /\ sigArg = commitInterruptTimeout => sigRet = "errBlockInterruptedByTimeout"
       /\ sigRet \in InterruptErrors
             <=> sigArg \in {commitInterruptNewHead, commitInterruptResubmit,
                             commitInterruptTimeout}
       /\ sigRet \notin InterruptErrors => sigRet = "panic"
       /\ Cardinality(InterruptErrors) = 3

C28_Witness ==
    /\ sigArg = commitInterruptNone
    /\ sigRet = "panic"

\* ------------------------------------------------------ pending task table
Stale(t, number) == t.number + staleThreshold <= number

\* The head number a purge step of the trigger loop is given.
PurgeNumber == IF startCh' # startCh THEN head ELSE CHOOSE n \in newBlockCh : TRUE

\* C9: right after the purge on a start signal or a new head with head
\* number H, the pending task table holds no entry with number <= H - 7.
C9_NoStaleAfterPurge ==
    [][(wpc = "select" /\ wpc' = "commit")
       => \A t \in pendingTasks' : ~Stale(t, PurgeNumber)]_vars

\* C10: a sealed block delivered for a task that was registered and handed
\* to the engine without error, that is not in the chain yet and is not
\* stale, never ends in the "no relative pending task" drop.
C10_SubmittedTaskFound ==
    [][\A blk \in sealing :
          (/\ \A seal \in Seals : Sealed(blk, seal) \notin chainBlocks
           /\ ~Stale(blk, head)
           /\ lastResult' # lastResult)
          => lastResult' # "no pending task"]_vars

\* A step of the trigger loop that runs clearPending: it took the start
\* signal or a new head.
PurgeStep ==
    /\ wpc = "select"
    /\ wpc' = "commit"
    /\ startCh' # startCh \/ newBlockCh' # newBlockCh

\* C20: a purge for head number H removes only stale entries: every entry
\* with number > H - 7 is still in the pending task table afterwards.
C20_PurgeKeepsFresh ==
    [][PurgeStep
       => \A t \in pendingTasks : ~Stale(t, PurgeNumber) => t \in pendingTasks']_vars

\* ---------------------------------------------------------- result handling
ResultStep(outcome) == lastResult' = outcome /\ lastResult # outcome

\* C11: no block is written to the chain store twice, and the delivery of a
\* block the store already holds writes nothing, publishes no event and
\* moves no head.
C11_DuplicateShortCircuits ==
    /\ [](writes = Cardinality(chainBlocks))
    /\ [][ResultStep("duplicate")
          => UNCHANGED <<chainBlocks, writes, head, newBlockCh>>]_vars

C11_Witness ==
    /\ lastResult = "duplicate"
    /\ writes = 1
    /\ Cardinality(chainBlocks) = 1

\* C12: one registered task leads to at most one chain-store write: the
\* store never holds two sealed blocks with the same pre-seal hash.
C12_TaskConsumedOnce ==
    \A b1, b2 \in chainBlocks : SealHash(b1) = SealHash(b2) => b1 = b2

\* C14: when the broadcast of a sealed block fails, the chain store does
\* not hold the block: the failing result step leaves the store as it was.
C14_BroadcastFailureNotCommitted ==
    [][ResultStep("broadcast failed") => chainBlocks' = chainBlocks]_vars

\* ---------------------------------------------------------- sealing dispatch
\* The step in which taskLoop takes a task from taskCh.
TaskRecvStep == rpc = "sendTask" /\ tpc = "select" /\ rpc' # rpc /\ ~ctxDone

\* C23: a task whose pre-seal hash is that of the task accepted before it is
\* dropped: the running attempt goes on, the pending task table is left as
\* it is, and Seal is not called.
C23_DuplicateDropped ==
    [][(TaskRecvStep /\ SealHash(task) \in prev)
       => /\ UNCHANGED <<sealing, stopCh, pendingTasks, prev>>
          /\ tpc' = "select"]_vars

C23_Witness ==
    /\ rpc = "sendTask"
    /\ tpc = "select"
    /\ SealHash(task) \in prev
    /\ sealing # {}
    /\ task \in pendingTasks

\* C24: when Seal is about to be called the channel of the attempt before is
\* closed; at most one cancellation channel is open at any time, the engine
\* runs at most one attempt, and no channel is closed twice.
C24_OneOpenStopCh ==
    /\ stopCh.open <= 1
    /\ ~stopCh.closedTwice
    /\ Cardinality(sealing) <= 1
    /\ tpc = "seal" => (stopCh.ref = "open" /\ stopCh.open = 1 /\ sealing = {})
    /\ sealing # {} => stopCh.ref = "open"

\* A second task is about to be sealed, the first still registered.
C24_Witness ==
    /\ tpc = "seal"
    /\ sealTask # EmptyTask
    /\ \E t \in pendingTasks : t # sealTask
    /\ stopCh.open = 1

\* The step in which engine.Seal returns.
SealReturnStep == tpc = "seal" /\ tpc' # "seal"

\* C25: when Seal returns an error the entry of the task is removed and the
\* loop goes on; it sends a start signal exactly when the error is
\* ErrNotEnoughSign.
C25_SealErrorHandling ==
    /\ [](tpc = "sendStart" => sealErr = "ErrNotEnoughSign")
    /\ [][(SealReturnStep /\ sealErr' # "nil")
            => /\ \A t \in pendingTasks' : SealHash(t) # SealHash(sealTask)
               /\ tpc' \in {"select", "sendStart"}
               /\ tpc' = "sendStart" <=> sealErr' = "ErrNotEnoughSign"
               /\ startCh' = startCh]_vars
    /\ [][(tpc = "sendStart" /\ tpc' # tpc) => (startCh' = startCh + 1 /\ tpc' = "select")]_vars

C25_Witness ==
    /\ tpc = "select"
    /\ sealErr = "ErrOther"
    /\ pendingTasks = {}
    /\ prev # {}

\* -------------------------------------------------- result handler effects
Before(i, kind, blk) ==
    \E j \in 1..(i - 1) : effects[j].kind = kind /\ effects[j].blk = blk

\* C21: for every sealed block the new-logs event comes only after the
\* write and only with logs, the broadcast request only after the write, the
\* chain-extended event only after the write and the broadcast; a block
\* with logs has its logs event before the broadcast request; a failed
\* write is followed by none of them, the handler is back at its select.
C21_EffectsInOrder ==
    /\ [](\A i \in DOMAIN effects :
            LET e == effects[i]
            IN  /\ e.kind = "logs" => (Before(i, "write", e.blk) /\ e.logs # <<>>)
                /\ e.kind = "broadcast" => Before(i, "write", e.blk)
                /\ e.kind = "highest"
                      => (Before(i, "write", e.blk) /\ effects[i - 1].kind = "broadcast"
                          /\ effects[i - 1].blk = e.blk)
                /\ (e.kind = "broadcast" /\ \E w \in store : w.blk = e.blk /\
                        \E r \in DOMAIN w.receipts : rheap[w.receipts[r]].logs # <<>>)
                      => Before(i, "logs", e.blk))
    /\ [](xpc \in {"logs", "sealed", "highest"} => hl.blk \in chainBlocks)
    /\ [][(xpc = "write" /\ xpc' # xpc /\ hl.blk \notin chainBlocks')
            => (xpc' = "select" /\ effects' = effects /\ newBlockCh' = newBlockCh)]_vars

\* A block with logs went through the write, the logs event, the broadcast
\* and the chain-extended event after an earlier write of it had failed.
C21_Witness ==
    /\ Len(effects) = 4
    /\ effects[2].kind = "logs"
    /\ effects[4].kind = "highest"
    /\ deliveries = 2
    /\ Cardinality(chainBlocks) = 1

\* C26: the receipts handed to the chain store for a sealed block carry its
\* hash, its number and their index, their logs and the logs of the
\* new-logs events carry its hash, and the receipts and logs of the task are
\* as the build left them.
C26_StampedCopies ==
    /\ \A w \in store : \A i \in DOMAIN w.receipts :
          LET r == rheap[w.receipts[i]]
          IN  /\ r.blockHash = w.blk
              /\ r.blockNumber = w.blk.number
              /\ r.transactionIndex = i - 1
              /\ \A k \in DOMAIN r.logs : lheap[r.logs[k]].blockHash = w.blk
    /\ \A i \in DOMAIN effects :
          \A k \in DOMAIN effects[i].logs : lheap[effects[i].logs[k]].blockHash = effects[i].blk
    /\ \A t \in pendingTasks : \A i \in DOMAIN t.receipts :
          LET r == rheap[t.receipts[i]]
          IN  /\ r.blockHash = NoHash /\ r.blockNumber = 0 /\ r.transactionIndex = 0
              /\ \A k \in DOMAIN r.logs : lheap[r.logs[k]] = NewLog

\* Two sealed blocks of one task are written, the task having two receipts
\* with logs.
C26_Witness ==
    /\ Cardinality(store) = 2
    /\ \A w \in store : Len(w.receipts) = 2 /\ rheap[w.receipts[2]].logs # <<>>
    /\ \E w1, w2 \in store : w1.blk # w2.blk /\ SealHash(w1.blk) = SealHash(w2.blk)

\* ------------------------------------------------------ the guarded fields
\* C29: whoever reads or writes the coinbase or the pending task table holds
\* w.mu at that moment, for writing if it writes; so the address commitWork
\* builds on is one that setCoinbase stored, or the initial one.
C29_GuardedAccesses ==
    /\ sc.pc \in {"write1", "write2"} => wmu.writer = "setCoinbase"
    /\ rg = "write" => wmu.writer = "taskLoop"
    /\ lk = "read" => "resultLoop" \in wmu.readers
    /\ cw.pc = "read2" => "commitWork" \in wmu.readers
    /\ cw.pc = "prepare" => \E a \in Addresses : cw.got = Words(a)

\* -------------------------------------------------------- environment.copy
\* C30: the copy holds what the original holds, and from then on a change
\* made to one of the two (a transaction appended, gas consumed, the header
\* or a set changed) leaves the txs, tcount, remaining gas, header and sets
\* of the other as they were.
C30_CopyIndependent ==
    /\ [][(Len(envs) = 1 /\ Len(envs') = 2)
            => /\ EnvView(mem', envs'[2]) = EnvView(mem, envs[1])
               /\ EnvView(mem', envs'[1]) = EnvView(mem, envs[1])]_vars
    /\ [][(Len(envs) = 2 /\ Len(envs') = 2)
            => \A s \in 1..2 :
                  EnvView(mem', envs'[s]) # EnvView(mem, envs[s])
                  => EnvView(mem', envs'[3 - s]) = EnvView(mem, envs[3 - s])]_vars

\* After the copy, the original got a transaction in the spare capacity of
\* its array and the copy consumed gas.
C30_Witness ==
    /\ Len(envs) = 2
    /\ envs[1].txs.len = 2
    /\ envs[1].txs.arr = 5
    /\ envs[2].txs.len = 1
    /\ envs[2].gasPool # 0
    /\ mem[envs[2].gasPool] < mem[envs[1].gasPool]

\* ------------------------------------------------------------------ retry
\* C13: after Seal failed with ErrNotEnoughSign the sealing dispatch gets
\* its start signal onto startCh, and a start signal on startCh is
\* eventually taken by the trigger loop.
C13_RetryObserved ==
    /\ (tpc = "sendStart") ~> (tpc = "select")
    /\ (startCh = 1) ~> (startCh = 0)

\* ------------------------------------------------------------ build cycles
\* A step of commitWork out of its coinbase check or out of prepareWork that
\* does not go on with the cycle: the cycle failed.
FailedCycleStep ==
    /\ rpc \in {"commitWork", "prepare"}
    /\ rpc' \notin {rpc, "prepare", "fill", "dispatch"}

\* C15: a build cycle that fails in commitWork's coinbase check or in
\* prepareWork hands no task to the sealing dispatch, leaves the pending
\* snapshot and the pending task table alone and has runLoop back at its
\* select for the next request.
C15_FailedCycleOnly ==
    [][FailedCycleStep
       => /\ rpc' = "select"
          /\ task' = EmptyTask
          /\ UNCHANGED <<pendingTasks, snapshotBlock, snapshotReceipts, sealVars>>]_vars

C15_Witness ==
    /\ rpc = "commitWork"
    /\ running
    /\ coinbase = ZeroAddress
    /\ snapshotBlock # NoBlock
    /\ pendingTasks # {}

\* C16: no task is handed to the sealing dispatch for a build whose
\* coinbase is the zero address.
C16_SealsOnlyWithCoinbase ==
    rpc = "sendTask" => task.coinbase # ZeroAddress

\* ---------------------------------------------------------------- snapshot
\* C17: what pendingBlockAndReceipts returns is a block with the receipts
\* one updateSnapshot call stored with it (or the initial empty pair); the
\* snapshot lock is write-held only inside updateSnapshot, and a reader that
\* finds no update in progress gets the lock at once.
C17_SnapshotPairs ==
    /\ \A r \in Readers :
          rdr[r].pc = "done" => rdr[r].receipts = rdr[r].block.receipts
    /\ snapshotMu = -1 <=> upc # "idle"
    /\ \A r \in Readers :
          (rdr[r].pc \in {"idle", "done"} /\ upc = "idle") => ENABLED ReaderRLock(r)

C17_Witness ==
    \E r \in Readers :
        /\ rdr[r].pc = "done"
        /\ rdr[r].block # NoBlock
        /\ snapshotBlock # rdr[r].block
        /\ upc = "receipts"

\* ---------------------------------------------------------------- shutdown
\* C18: once the shared context is cancelled every loop eventually returns,
\* whatever it was doing at that moment.
C18_AllLoopsTerminate == ctxDone ~> AllLoopsDone

\* -------------------------------------------------------------- AddrLocker
HoldsAddr(c, a) == acl[c].held /\ acl[c].addr = a

\* C19: no two callers hold the lock of one address at a time; all callers
\* get the one mutex of the map for an address; a caller at the mutex of an
\* address nobody holds locks it without waiting, whatever is held on
\* other addresses, and nobody waits for an address while holding l.mu.
C19_AddrLockExclusive ==
    /\ \A c1, c2 \in Callers, a \in Addresses :
          (HoldsAddr(c1, a) /\ HoldsAddr(c2, a)) => c1 = c2
    /\ \A c \in Callers : acl[c].m # 0 => acl[c].m = locks[acl[c].addr]
    /\ \A c \in Callers :
          (/\ acl[c].pc = "mutexLock"
           /\ \A d \in Callers : ~HoldsAddr(d, acl[c].addr))
          => ENABLED MutexLock(c)
    /\ almu # 0 => acl[almu].pc \in {"check", "create", "return"}

C19_Witness ==
    /\ acl[1].pc = "mutexLock"
    /\ HoldsAddr(2, acl[1].addr)
    /\ acl[1].m = acl[2].m
    /\ Len(mutexes) = 2

\* ------------------------------------------------------ build and chain store
\* A step in which the chain store is written.
StoreWriteStep == chainBlocks' # chainBlocks \/ writes' # writes

\* C31: the chain store is written only by the result handler, one sealed
\* block per call of WriteBlockWithState, and only a block of a submitted
\* task whose pre-seal hash was found in pendingTasks; no step of a build
\* cycle, completed, failed or interrupted, changes the chain store.
C31_OnlyHandlerWrites ==
    [][/\ StoreWriteStep =>
            /\ xpc = "select"
            /\ buildVars' = buildVars
            /\ writes' = writes + 1
            /\ \E blk \in chainBlocks' \ chainBlocks :
                /\ chainBlocks' = chainBlocks \cup {blk}
                /\ blk.seal \in Seals
                /\ Registered(blk)
                /\ \E t \in sealing : SealHash(t) = SealHash(blk)
       /\ buildVars' # buildVars => UNCHANGED <<chainBlocks, writes>>]_vars

\* The store holds a block and a later build was interrupted with a
\* transaction accepted.
C31_Witness ==
    /\ writes >= 1
    /\ chainBlocks # {}
    /\ rpc = "dispatch"
    /\ fillErr = "errBlockInterruptedByNewHead"

\* ------------------------------------------------ direction of the feedback
\* The step in which workLoop takes a feedback message off resubmitAdjustCh.
AdjustStep == adjustCh # <<>> /\ adjustCh' = Tail(adjustCh)

\* The ratio of an increase message is in [0.1, 1].
RatioInRange(ratio) ==
    /\ ratio.num > 0
    /\ ratio.den <= 10 * ratio.num
    /\ ratio.num <= ratio.den

\* C32: from an interval that is not below minRecommit, an increase message
\* with a ratio in [0.1, 1] never makes the interval shorter, and a decrease
\* message never makes it longer.
C32_FeedbackDirection ==
    [][(AdjustStep /\ recommit >= minRecommit) =>
          /\ (Head(adjustCh).inc /\ RatioInRange(Head(adjustCh).ratio))
                => recommit' >= recommit
          /\ ~Head(adjustCh).inc => recommit' <= recommit]_vars

\* ------------------------------------------------------------ blocked sends
\* workLoop.commit is blocked in its send on newWorkCh: runLoop is not at
\* its select.
TriggerBlocked == wpc = "commit" /\ rpc # "select"

\* commit is blocked in its send on taskCh: taskLoop is not at its select.
BuildBlockedOnTask == rpc = "sendTask" /\ tpc # "select"

\* commitWork is blocked in its send on resubmitAdjustCh: the buffer is full.
BuildBlockedOnFeedback ==
    /\ rpc = "dispatch"
    /\ Len(adjustCh) + Len(Feedback(fillErr, env)) > resubmitAdjustChanSize

\* taskLoop is blocked in its send on startCh: the buffer holds a token.
SealBlocked == tpc = "sendStart" /\ startCh > 0

\* Each blocked loop waits for a loop that is blocked itself.
CircularWait ==
    \/ TriggerBlocked /\ BuildBlockedOnTask /\ SealBlocked
    \/ TriggerBlocked /\ BuildBlockedOnFeedback

\* C33: without cancellation no state is reachable in which the trigger
\* loop, the build dispatch and the sealing dispatch are blocked in their
\* sends, each waiting for another of them to receive.
C33_NoCircularWait == ~CircularWait

\* ---------------------------------------------------- dropped duplicates
\* C34: when taskLoop drops a task because its pre-seal hash is that of the
\* task before it, pendingTasks holds an entry for that hash.
C34_DroppedStillRegistered ==
    [][(TaskRecvStep /\ IsPrev(SealHash(task)))
       => \E t \in pendingTasks' : SealHash(t) = SealHash(task)]_vars

\* ------------------------------------------------------- signals in use
\* C35: an interruption flag holds "none" or "new head" only; assembly never
\* returns the recommit or the timeout classification, signalToErr never
\* panics, and no increase message is ever on resubmitAdjustCh.
C35_OnlyNewHeadSignal ==
    /\ \A f \in DOMAIN flags :
          flags[f] \in {commitInterruptNone, commitInterruptNewHead}
    /\ fillErr \in {"nil", "errPool", "errBlockInterruptedByNewHead"}
    /\ rpc # "panic"
    /\ \A k \in 1..Len(adjustCh) : ~adjustCh[k].inc

\* A raised flag stopped the assembly of a mining worker, with feedback of
\* an earlier cycle still on the channel.
C35_Witness ==
    /\ running
    /\ rpc = "dispatch"
    /\ flags[req.interrupt] = commitInterruptNewHead
    /\ fillErr = "errBlockInterruptedByNewHead"
    /\ env.tcount = 0
    /\ adjustCh # <<>>

\* ------------------------------------------------------- interrupted builds
\* fillTransactions returned an interruption or the error of the pool read.
InterruptedCycle == fillErr \in {"errBlockInterruptedByNewHead", "errPool"}

\* The build dispatch leaves the statement it is at.
BuildMoves == rpc' # rpc

\* The task and the snapshot commit makes of the environment.
TaskOfEnv ==
    [number |-> env.header.number, time |-> env.header.time,
     coinbase |-> env.header.coinbase, txs |-> env.txs]
FinalizedStep ==
    /\ rpc' = "sendTask"
    /\ task' = TaskOfEnv
    /\ snapshotBlock' = NewBlockFromReceipt(env)
    /\ snapshotReceipts' = copyReceipts(env.receipts)

\* The cycle goes on to commit with its context as it is, the task is taken
\* by taskLoop, and no request is picked up before that.
CycleGoesOn ==
    /\ (rpc = "dispatch" /\ BuildMoves) => (rpc' = "commit" /\ env' = env)
    /\ (rpc = "sendTask" /\ BuildMoves)
          => /\ tpc = "select"
             /\ IsPrev(SealHash(task)) \/ task \in pendingTasks'
    /\ rpc \in {"dispatch", "commit", "sendTask"} => (req' = req \/ req' = NoReq)

\* C36 as stated: an interrupted cycle of an active scheduler always
\* finalizes its context, updates the snapshot and has a task for sealing
\* dispatch.
C36_AlwaysFinalized ==
    [][InterruptedCycle =>
          /\ CycleGoesOn
          /\ (rpc = "commit" /\ running /\ BuildMoves) => FinalizedStep]_vars

\* C36: an interrupted cycle of an active scheduler goes on to commit; unless
\* FinalizeAndAssemble fails, which ends the cycle with nothing updated, it
\* updates the snapshot from the partial context and offers the task on
\* taskCh, and the next request is not picked up until taskLoop took it.
C36_InterruptedCycleCompletes ==
    [][InterruptedCycle =>
          /\ CycleGoesOn
          /\ (rpc = "commit" /\ running /\ BuildMoves)
                => \/ FinalizedStep
                   \/ /\ rpc' = "select"
                      /\ UNCHANGED <<snapshotBlock, snapshotReceipts, pendingTasks,
                                     sealVars>>]_vars

\* taskLoop registered the task of a cycle that a new head interrupted after
\* its first transaction.
C36_Witness ==
    /\ tpc = "seal"
    /\ sealTask.txs = <<1>>
    /\ sealTask \in pendingTasks
    /\ snapshotBlock.txs = <<1>>
    /\ Len(txsPool) = 2

\* ------------------------------------------------------- idle build cycles
\* C37: in a build cycle of a worker that is not running, the transactions
\* are assembled and the feedback of a completed assembly is sent, and
\* commit then returns without a task: the snapshot, the pending task table
\* and the sealing dispatch are left as they are.
C37_IdleCycleFrame ==
    [][~running =>
          /\ (rpc = "dispatch" /\ BuildMoves)
                => /\ rpc' = "commit"
                   /\ fillErr = "nil" => /\ Len(adjustCh') = Len(adjustCh) + 1
                                         /\ ~adjustCh'[Len(adjustCh')].inc
          /\ (rpc = "commit" /\ BuildMoves)
                => /\ rpc' = "select"
                   /\ task' = EmptyTask
                   /\ UNCHANGED <<snapshotBlock, snapshotReceipts, pendingTasks, sealVars>>]_vars

\* A stopped worker with a snapshot and a registered task from its mining
\* time has assembled both transactions and sent the feedback.
C37_Witness ==
    /\ ~running
    /\ rpc = "commit"
    /\ env.tcount = 2
    /\ adjustCh # <<>>
    /\ pendingTasks # {}
    /\ snapshotBlock # NoBlock
    /\ snapshotBlock.txs # env.txs

\* ------------------------------------------------- subscription topic handler
\* A registered topic has gossip digest d.
TopicWithDigest(d) ==
    \E topic \in subTopics :
        ~ExtractGossipDigest(topic).err /\ ExtractGossipDigest(topic).digest = d

\* C38: after any calls of addTopic and removeTopic, digestExists(d) is true
\* exactly when a registered topic has gossip digest d.
C38_DigestExistsIffTopic ==
    \A d \in Digests : digestExists(digestMap, d) <=> TopicWithDigest(d)

\* ----------------------------------------------------------------- lmdb.Lmdb
\* The DBI handles made for a database name.
HandlesFor(name) == {h \in 1..Len(dbis) : dbis[h] = name}

\* C39: under concurrent calls of Open, OpenReader and OpenWriter at most one
\* DBI handle is made for a database name, and every caller gets that handle.
C39_OneHandlePerName ==
    \A name \in DBNames :
        /\ Cardinality(HandlesFor(name)) <= 1
        /\ \A c \in Openers : \A h \in ocl[c].got :
              dbis[h] = name => mDBI[name] = h

====
